---- MODULE Spec2Model ----
(***************************************************************************)
(* Model of scripts/resilient_fetcher.py: the ResilientFetcher class.      *)
(*                                                                         *)
(* One ResilientFetcher instance is driven by a single-threaded caller     *)
(* through fetch_with_retry, fetch_batch and reset.  The primary and the   *)
(* fallback fetcher are callbacks of the caller: every call of one of them *)
(* returns a quote, returns an empty (falsy) result, or raises.            *)
(***************************************************************************)
EXTENDS Integers, Sequences, FiniteSets, TLC

(* ------------------------------ bounds -------------------------------- *)

\* largest explicit max_retries handed to the constructor
MaxRetriesArg == 1
\* longest ticker list handed to fetch_batch
MaxBatchLen == 2
\* fetch_with_retry calls (direct or through fetch_batch) between two resets
MaxAttempts == 2
\* the rate_limit_delay handed to fetch_with_retry / fetch_batch when it is not 0
MaxDelay == 1
\* reset calls in a row
MaxResets == 2
\* largest explicit backoff_base of the fetcher whose backoff delays are tabulated
MaxBase == 3
\* largest base_delay handed to _calculate_backoff when its delays are tabulated
MaxFloor == 3
\* largest attempt index handed to _calculate_backoff when its delays are tabulated
MaxIndex == 4
\* largest max_retries a retry decorator is applied with, besides the 3 the
\* functions of the app are decorated with
MaxWrapRetries == 1
\* calls of the subscriber and mailer functions in one run
MaxOps == 1
\* time.time() when the APIPriceComparator is constructed, in seconds
StartTime == 12
\* the clock value up to which time passes between the calls of the comparator
MaxClock == 25
\* calls of the fetch methods of one APIPriceComparator
MaxCalls == 2
\* longest recipient list handed to send_bulk_email
MaxRecipients == 2
\* invocations of the function app that follow the first one
MaxRuns == 1

(* -------------------------- program constants ------------------------- *)

\* RETRY_CONFIG["max_retries"]
DEFAULT_MAX_RETRIES == 3
\* RETRY_CONFIG["backoff_base"]
DEFAULT_BACKOFF_BASE == 2

\* the message _record_failure is called with
EXHAUSTED_MESSAGE == "All sources exhausted after retries"

(* ------------------------------ inputs -------------------------------- *)

\* a constructor argument: omitted (None), or an explicit number
Omitted == [given |-> FALSE, v |-> 0]
Given(n) == [given |-> TRUE, v |-> n]

Tickers == {"AAPL", "MSFT"}

\* what one call of a fetcher does: return a quote (a non-empty dict),
\* return an empty result (None or an empty dict), raise a transient error
\* (network error, HTTP 5xx / 429), raise a client error (HTTP 400)
Outcomes == {"quote", "empty", "transient", "client"}
Raises == {"transient", "client"}

MaxRetriesArgs == {Omitted} \cup {Given(n) : n \in 0 .. MaxRetriesArg}
\* the backoff_base argument of the fetcher that is driven through its fetch
\* methods, which never read backoff_base; explicit multipliers are BackoffBases
BackoffArgs == {Omitted}
Delays == {0, MaxDelay}

RECURSIVE SeqsUpTo(_, _)
SeqsUpTo(S, n) ==
  IF n = 0 THEN {<<>>}
  ELSE LET shorter == SeqsUpTo(S, n - 1)
       IN  shorter \cup {Append(s, x) : s \in {q \in shorter : Len(q) = n - 1}, x \in S}

TickerLists == SeqsUpTo(Tickers, MaxBatchLen)

\* the dict a fetcher returns for a ticker
Quote(t, source) == [ticker |-> t, source |-> source]
\* Python's None, the result of a failed fetch
None == [ticker |-> "", source |-> "None"]

(* ------------------------------- state -------------------------------- *)

VARIABLES
  max_retries_arg,     \* the max_retries argument of __init__
  backoff_base_arg,    \* the backoff_base argument of __init__
  max_retries,         \* self.max_retries
  backoff_base,        \* self.backoff_base
  failed_tickers,      \* self.failed_tickers: ticker -> error message
  stats,               \* self.stats
  pc,                  \* position of fetch_with_retry: idle, loop, returned
  ticker,              \* fetch_with_retry: ticker
  has_fallback,        \* fetch_with_retry: a fallback_fetcher is given
  rate_limit_delay,    \* fetch_with_retry / fetch_batch: rate_limit_delay
  quote_on,            \* primary_fetcher: the call for this ticker (counted from 1)
                       \* on which it returns a quote; 0: on none
  attempt,             \* fetch_with_retry: loop variable of the primary loop
  ret,                 \* fetch_with_retry: the returned value
  calls,               \* fetcher calls and sleeps made for the current ticker
  pre,                 \* stats and failure keys when fetch_with_retry was entered
  bpc,                 \* position of fetch_batch: none, running, done
  tickers,             \* fetch_batch: tickers
  continue_on_failure, \* fetch_batch: continue_on_failure
  i,                   \* fetch_batch: loop index
  results,             \* fetch_batch: results
  processed,           \* fetch_batch: the fetch_with_retry calls made, in order
  bpre,                \* stats and failure keys when fetch_batch was entered
  resets,              \* reset calls made in a row
  before_reset,        \* stats and failure keys before the first of these resets
  bk_base_delay,       \* _calculate_backoff: base_delay
  bk_delays,           \* _calculate_backoff: the delays returned for attempt 0, 1, ...
  table,               \* the subscribers table: RowKey -> entity
  ops,                 \* calls of the subscriber and mailer functions made so far
  w_max_retries,       \* retry decorators: max_retries
  w_attempt,           \* wrapper: attempt
  w_delay,             \* wrapper: delay, in milliseconds
  w_log,               \* wrapper: the invocations of func and the sleeps, in order
  w_out,               \* wrapper: whether it is over, and the exception it raised
  s_pc,                \* position of subscribe_email: idle, create, returned
  s_email,             \* subscribe_email: email_normalized
  s_pre,               \* the RowKeys of the table when subscribe_email was entered
  s_result,            \* subscribe_email: the returned status, or the exception raised
  m_pc,                \* position of send_bulk_email: idle, loop, send, done, raised
  recipients,          \* send_bulk_email: recipients
  m_from_email,        \* a sender address is given or configured (BREVO_FROM_EMAIL)
  m_api_key,           \* BREVO_API_KEY is configured
  m_idx,               \* send_bulk_email: the recipients the loop is done with
  sent,                \* send_bulk_email: sent
  failed,              \* send_bulk_email: failed
  m_sends,             \* the send_email calls made, in order
  m_result,            \* send_bulk_email: result
  now,                 \* time.time(), in seconds
  alphavantage_key,    \* self.alphavantage_key is set
  finnhub_key,         \* self.finnhub_key is set
  last_alphavantage_call, \* self.last_alphavantage_call
  last_finnhub_call,   \* self.last_finnhub_call
  c_pc,                \* position of a fetch method: idle, waited, sent
  c_method,            \* the fetch method in progress
  c_start,             \* time.time() when the method was entered
  c_last,              \* the provider's last-call time when the method was entered
  c_slept,             \* the time _wait_for_rate_limit slept
  c_retries,           \* the retries the session has made for this call
  c_calls,             \* calls of the fetch methods made so far
  requests,            \* the HTTP requests issued: provider and time
  q_kind,              \* the query of the fetcher whose result the caller holds
  q_ret,               \* that result, as the caller now has it
  q_shared,            \* that result is the fetcher's own dictionary, not a copy
  q_mutated,           \* the caller has written to that result
  q_before,            \* the counters and the failure map when the query was called
  runs,                \* invocations of the function app begun after the first one
  u_pc,                \* position of unsubscribe_email: idle, get, update, returned
  u_email,             \* unsubscribe_email: email_normalized
  u_entity,            \* unsubscribe_email: entity
  u_before,            \* the table when unsubscribe_email was entered
  u_calls,             \* the table operations unsubscribe_email has invoked, in order
  u_result,            \* unsubscribe_email: the returned status, or the exception raised
  a_pc,                \* position of get_active_subscribers: idle, query, returned
  a_result,            \* get_active_subscribers: the returned list, or the exception raised
  j_pc,                \* position of send_weekly_newsletter: idle, subscribers, sending, returned
  j_subscribers,       \* send_weekly_newsletter: subscribers
  j_content,           \* get_weekly_email_content: not called, returned, or the exception raised
  j_result,            \* send_weekly_newsletter: the returned dictionary
  h_pc,                \* position of the SubscribeEmail handler: idle, storage, returned
  h_request,           \* the HTTP request: method and body
  h_response           \* the HTTP response: status code, or the exception that escaped

config_vars == <<max_retries_arg, backoff_base_arg, max_retries, backoff_base>>
tracker_vars == <<failed_tickers, stats>>
fetch_vars == <<pc, ticker, has_fallback, rate_limit_delay, quote_on, attempt, ret, calls, pre>>
batch_vars == <<bpc, tickers, continue_on_failure, i, results, processed, bpre>>
reset_vars == <<resets, before_reset>>
backoff_vars == <<bk_base_delay, bk_delays>>
\* the state outside the fetch_with_retry / fetch_batch / reset calls of the fetcher
wrapper_vars == <<w_max_retries, w_attempt, w_delay, w_log, w_out>>
subscriber_vars == <<table, s_pc, s_email, s_pre, s_result>>
mailer_vars == <<m_pc, recipients, m_from_email, m_api_key, m_idx, sent, failed,
                 m_sends, m_result>>
unsub_vars == <<u_pc, u_email, u_entity, u_before, u_calls, u_result>>
active_vars == <<a_pc, a_result>>
job_vars == <<j_pc, j_subscribers, j_content, j_result>>
http_vars == <<h_pc, h_request, h_response>>
\* the state of the functions around subscribe_email and send_bulk_email
ext_vars == <<runs, unsub_vars, active_vars, job_vars, http_vars>>
app_vars == <<ops, wrapper_vars, subscriber_vars, mailer_vars, ext_vars>>
comparator_vars == <<now, alphavantage_key, finnhub_key, last_alphavantage_call,
                     last_finnhub_call, c_pc, c_method, c_start, c_last, c_slept,
                     c_retries, c_calls, requests>>
query_vars == <<q_kind, q_ret, q_shared, q_mutated, q_before>>
other_vars == <<backoff_vars, app_vars, comparator_vars, query_vars>>
vars == <<config_vars, tracker_vars, fetch_vars, batch_vars, reset_vars, other_vars>>

ZeroStats ==
  [total_attempts |-> 0, primary_successes |-> 0, fallback_successes |-> 0,
   total_failures |-> 0, retries_used |-> 0]

EmptyDict == [t \in {} |-> None]

\* Python's `x or default` for a numeric argument: None and 0 are falsy
OrDefault(x, default) == IF ~x.given \/ x.v = 0 THEN default ELSE x.v

\* ResilientFetcher.__init__: self.max_retries
InitMaxRetries(arg) == OrDefault(arg, DEFAULT_MAX_RETRIES)
\* ResilientFetcher.__init__: self.backoff_base
InitBackoffBase(arg) == OrDefault(arg, DEFAULT_BACKOFF_BASE)

Snapshot == [stats |-> stats, failed |-> DOMAIN failed_tickers]
NoSnapshot == [stats |-> ZeroStats, failed |-> {}]

\* the fetcher right after __init__, no call in progress: lines 66-75
FetcherIdle ==
  /\ failed_tickers = EmptyDict
  /\ stats = ZeroStats
  /\ pc = "idle"
  /\ ticker = ""
  /\ has_fallback = FALSE
  /\ rate_limit_delay = 0
  /\ quote_on = 0
  /\ attempt = 0
  /\ ret = None
  /\ calls = <<>>
  /\ pre = NoSnapshot
  /\ bpc = "none"
  /\ tickers = <<>>
  /\ continue_on_failure = TRUE
  /\ i = 0
  /\ results = EmptyDict
  /\ processed = <<>>
  /\ bpre = NoSnapshot
  /\ resets = 0
  /\ before_reset = NoSnapshot

\* no delay of _calculate_backoff is tabulated
BackoffIdle ==
  /\ bk_base_delay = 0
  /\ bk_delays = <<>>

\* no wrapped operation is in progress
WrapperIdle ==
  /\ w_attempt = 0
  /\ w_delay = 0
  /\ w_log = <<>>
  /\ w_out = [done |-> FALSE, exc |-> [cls |-> "", status |-> 0]]

\* no subscribe_email call is in progress
SubscriberIdle ==
  /\ s_pc = "idle"
  /\ s_email = <<>>
  /\ s_pre = {}
  /\ s_result = ""

\* the summary send_bulk_email returns: lines 216-221
Summary(total, n_sent, n_failed, failed_emails) ==
  [total |-> total, sent |-> n_sent, failed |-> n_failed, failed_emails |-> failed_emails]

\* no send_bulk_email call is in progress
MailerIdle ==
  /\ m_pc = "idle"
  /\ recipients = <<>>
  /\ m_from_email = TRUE
  /\ m_api_key = TRUE
  /\ m_idx = 0
  /\ sent = <<>>
  /\ failed = <<>>
  /\ m_sends = <<>>
  /\ m_result = Summary(0, 0, 0, <<>>)

\* an entity of the subscribers table, and the absence of one
Entity(email, isActive) == [email |-> email, isActive |-> isActive]
NoEntity == Entity(<<>>, FALSE)

\* no unsubscribe_email call is in progress
UnsubscribeIdle ==
  /\ u_pc = "idle"
  /\ u_email = <<>>
  /\ u_entity = NoEntity
  /\ u_before = EmptyDict
  /\ u_calls = <<>>
  /\ u_result = ""

\* what get_active_subscribers hands back: a list, or SubscriptionError
ActiveResult(raised, emails) == [raised |-> raised, emails |-> emails]

\* no get_active_subscribers call is in progress
ActiveIdle ==
  /\ a_pc = "idle"
  /\ a_result = ActiveResult(FALSE, <<>>)

\* the dictionary send_weekly_newsletter returns
JobResult(status, error_type, total, n_sent, n_failed) ==
  [status |-> status, error_type |-> error_type, total |-> total, sent |-> n_sent,
   failed |-> n_failed]
NoJobResult == JobResult("", "", 0, 0, 0)

\* no send_weekly_newsletter call is in progress
JobIdle ==
  /\ j_pc = "idle"
  /\ j_subscribers = <<>>
  /\ j_content = ""
  /\ j_result = NoJobResult

\* the value the JSON body holds under 'email': None (also when the key is
\* missing), a number or a string
JsonNull == [type |-> "null", number |-> 0, chars |-> <<>>]
JsonNumber(n) == [type |-> "number", number |-> n, chars |-> <<>>]
JsonString(chars) == [type |-> "string", number |-> 0, chars |-> chars]

\* an HTTP request of the SubscribeEmail route; the response to it, or the
\* class of the exception that left the handler
HttpRequest(method, body, email) == [method |-> method, body |-> body, email |-> email]
HttpResponse(status_code, message, escaped) ==
  [status_code |-> status_code, message |-> message, escaped |-> escaped]

\* no request is being handled
HandlerIdle ==
  /\ h_pc = "idle"
  /\ h_request = HttpRequest("", "", JsonNull)
  /\ h_response = HttpResponse(0, "", "")

\* none of the functions around subscribe_email and send_bulk_email is in progress
FunctionsIdle ==
  /\ runs = 0
  /\ UnsubscribeIdle
  /\ ActiveIdle
  /\ JobIdle
  /\ HandlerIdle

\* the function app before any request: an empty table, nothing in progress
AppIdle ==
  /\ table = EmptyDict
  /\ ops = 0
  /\ w_max_retries = 0
  /\ WrapperIdle
  /\ SubscriberIdle
  /\ MailerIdle
  /\ FunctionsIdle

\* no fetch method of the comparator is in progress
ComparatorFrameIdle ==
  /\ c_pc = "idle"
  /\ c_method = ""
  /\ c_start = 0
  /\ c_last = 0
  /\ c_slept = 0
  /\ c_retries = 0

\* APIPriceComparator.__init__: lines 57-59, before any call
ComparatorIdle ==
  /\ now = StartTime
  /\ alphavantage_key = TRUE
  /\ finnhub_key = TRUE
  /\ last_alphavantage_call = 0
  /\ last_finnhub_call = 0
  /\ ComparatorFrameIdle
  /\ c_calls = 0
  /\ requests = <<>>

\* the counters and the failure map
Tracker == [stats |-> stats, failed_tickers |-> failed_tickers]

\* the caller holds no result of a query
QueriesIdle ==
  /\ q_kind = "none"
  /\ q_ret = None
  /\ q_shared = FALSE
  /\ q_mutated = FALSE
  /\ q_before = [stats |-> ZeroStats, failed_tickers |-> EmptyDict]

\* the max_retries arguments of the fetchers that are driven through their
\* fetch methods: an explicit 0 leaves the same fetcher as an omitted argument
\* (InitMaxRetries), and is handed to the constructor in SpecBackoff
FetcherArgs == MaxRetriesArgs \ {Given(0)}

Init ==
  /\ max_retries_arg \in FetcherArgs
  /\ backoff_base_arg \in BackoffArgs
  /\ max_retries = InitMaxRetries(max_retries_arg)
  /\ backoff_base = InitBackoffBase(backoff_base_arg)
  /\ FetcherIdle
  /\ BackoffIdle
  /\ AppIdle
  /\ ComparatorIdle
  /\ QueriesIdle

(* ----------------------------- helpers -------------------------------- *)

RECURSIVE Pow(_, _)
Pow(b, n) == IF n = 0 THEN 1 ELSE b * Pow(b, n - 1)

\* mutant of _calculate_backoff: the delay grows linearly with the attempt
_calculate_backoff_linear(att, base_delay) == base_delay + backoff_base * att

\* ResilientFetcher._calculate_backoff
_calculate_backoff(att, base_delay) == base_delay + Pow(backoff_base, att)

\* dict assignment d[k] = v
DictSet(d, k, v) == [x \in DOMAIN d \cup {k} |-> IF x = k THEN v ELSE d[x]]

\* mutant of RecordFailureMap: only the latest failure is kept
RecordFailureMapLatest(t, error_message) == DictSet(EmptyDict, t, error_message)

\* mutant of RecordFailureMap: the ticker is not stored
RecordFailureMapLost(t, error_message) == failed_tickers

\* ResilientFetcher._record_failure: the failure map afterwards
RecordFailureMap(t, error_message) == DictSet(failed_tickers, t, error_message)

\* mutant of RecordFailureStats: the failure is tallied as a fallback success
RecordFailureStatsAsFallback == [stats EXCEPT !.fallback_successes = @ + 1]

\* mutant of RecordFailureStats: the failure is counted twice
RecordFailureStatsTwice == [stats EXCEPT !.total_failures = @ + 2]

\* ResilientFetcher._record_failure: the statistics afterwards
RecordFailureStats == [stats EXCEPT !.total_failures = @ + 1]

\* the events kept in calls
PrimaryCall(o) == [ev |-> "primary", out |-> o, d |-> 0]
FallbackCall(o) == [ev |-> "fallback", out |-> o, d |-> 0]
Sleep(at, d) == [ev |-> "sleep", out |-> at, d |-> d]

\* the positions of the events of one kind in a sequence of events
EventsAt(cs, ev) == {k \in 1 .. Len(cs) : cs[k].ev = ev}
Count(cs, ev) == Cardinality(EventsAt(cs, ev))

\* no call of the public API is in progress
Idle == pc = "idle" /\ bpc = "none"

\* what the primary fetcher does on its next call for the current ticker
PrimaryOutcomes ==
  IF Count(calls, "primary") + 1 = quote_on THEN {"quote"} ELSE Outcomes \ {"quote"}

(* -------------------------- fetch_with_retry -------------------------- *)

\* the bound of the primary loop: for attempt in range(self.max_retries)
PrimaryAttempts == max_retries

\* mutant of PrimaryExhausted: the fallback is tried after the first failed attempt
PrimaryExhaustedEarly == attempt >= 1

\* the primary loop is over: lines 120-121
PrimaryExhausted == attempt >= PrimaryAttempts

\* mutant of PrimarySuccessStats: only the retries are tallied
PrimarySuccessStatsRetriesOnly(att) ==
  [stats EXCEPT !.retries_used = IF att > 0 THEN @ + att ELSE @]

\* the statistics after the primary returned a quote on loop index att: lines 103-105
PrimarySuccessStats(att) ==
  [stats EXCEPT !.primary_successes = @ + 1,
                !.retries_used = IF att > 0 THEN @ + att ELSE @]

\* mutant of FallbackSuccessStats: the failed primary attempts are tallied as retries
FallbackSuccessStatsRetries ==
  [stats EXCEPT !.fallback_successes = @ + 1, !.retries_used = @ + attempt]

\* the statistics after the fallback returned a quote: line 126
FallbackSuccessStats == [stats EXCEPT !.fallback_successes = @ + 1]

\* the sleep after the primary raised on loop index att: lines 113-118
SleepAfterRaise(att) ==
  IF att < max_retries - 1
  THEN <<Sleep("retry", _calculate_backoff(att, rate_limit_delay))>>
  ELSE <<>>

\* what follows a primary call that returned no quote: nothing after an empty
\* result (line 110), the handler of lines 112-118 after an exception
AfterPrimaryFailure(o, att) == IF o \in Raises THEN SleepAfterRaise(att) ELSE <<>>

\* entry of fetch_with_retry: line 96
EnterFetch(t, q, before) ==
  /\ stats' = [stats EXCEPT !.total_attempts = @ + 1]
  /\ pre' = Snapshot
  /\ ticker' = t
  /\ quote_on' = q
  /\ attempt' = 0
  /\ ret' = None
  /\ calls' = before
  /\ pc' = "loop"
  /\ UNCHANGED failed_tickers

\* a direct call of fetch_with_retry by the caller
CallFetchWithRetry ==
  /\ Idle
  /\ stats.total_attempts < MaxAttempts
  /\ \E t \in Tickers, q \in 0 .. max_retries + 1, fb \in BOOLEAN, delay \in Delays :
       /\ EnterFetch(t, q, <<>>)
       /\ has_fallback' = fb
       /\ rate_limit_delay' = delay
  /\ resets' = 0
  /\ before_reset' = NoSnapshot
  /\ UNCHANGED <<other_vars, config_vars, batch_vars>>

\* one iteration of the primary loop: lines 99-118
PrimaryAttempt ==
  /\ pc = "loop"
  /\ ~PrimaryExhausted
  /\ \E o \in PrimaryOutcomes :
       IF o = "quote"
       THEN /\ stats' = PrimarySuccessStats(attempt)
            /\ ret' = Quote(ticker, "primary")
            /\ calls' = Append(calls, PrimaryCall(o))
            /\ pc' = "returned"
            /\ UNCHANGED attempt
       ELSE /\ calls' = Append(calls, PrimaryCall(o)) \o AfterPrimaryFailure(o, attempt)
            /\ attempt' = attempt + 1
            /\ UNCHANGED <<stats, ret, pc>>
  /\ UNCHANGED <<other_vars, config_vars, failed_tickers, ticker, has_fallback, rate_limit_delay,
                 quote_on, pre, batch_vars, reset_vars>>

\* the primary loop is over and a fallback is given: lines 121-134
FallbackAttempt ==
  /\ pc = "loop"
  /\ PrimaryExhausted
  /\ has_fallback
  /\ \E o \in Outcomes :
       /\ calls' = Append(calls, FallbackCall(o))
       /\ IF o = "quote"
          THEN /\ stats' = FallbackSuccessStats
               /\ ret' = Quote(ticker, "fallback")
               /\ UNCHANGED failed_tickers
          ELSE /\ failed_tickers' = RecordFailureMap(ticker, EXHAUSTED_MESSAGE)
               /\ stats' = RecordFailureStats
               /\ ret' = None
  /\ pc' = "returned"
  /\ UNCHANGED <<other_vars, config_vars, ticker, has_fallback, rate_limit_delay, quote_on, attempt,
                 pre, batch_vars, reset_vars>>

\* the primary loop is over and no fallback is given: lines 121, 133-134
NoFallback ==
  /\ pc = "loop"
  /\ PrimaryExhausted
  /\ ~has_fallback
  /\ failed_tickers' = RecordFailureMap(ticker, EXHAUSTED_MESSAGE)
  /\ stats' = RecordFailureStats
  /\ ret' = None
  /\ pc' = "returned"
  /\ UNCHANGED <<other_vars, config_vars, ticker, has_fallback, rate_limit_delay, quote_on, attempt,
                 calls, pre, batch_vars, reset_vars>>

\* fetch_with_retry has returned: its frame (arguments and locals) is gone
LeaveFetch ==
  /\ pc' = "idle"
  /\ ticker' = ""
  /\ quote_on' = 0
  /\ attempt' = 0
  /\ ret' = None
  /\ calls' = <<>>
  /\ pre' = NoSnapshot

\* a direct call of fetch_with_retry hands its result to the caller
ReturnFetchWithRetry ==
  /\ pc = "returned"
  /\ bpc = "none"
  /\ LeaveFetch
  /\ has_fallback' = FALSE
  /\ rate_limit_delay' = 0
  /\ UNCHANGED <<other_vars, config_vars, tracker_vars, batch_vars, reset_vars>>

(* ----------------------------- fetch_batch ---------------------------- *)

\* the sleep between two tickers: lines 161-162
SleepBetweenTickers(idx, delay) ==
  IF idx > 0 /\ delay > 0 THEN <<Sleep("batch", delay)>> ELSE <<>>

\* mutant of BatchResults: the quote is stored without the test of line 171
BatchResultsUnchecked(t, r) == DictSet(results, t, r)

\* results after fetch_with_retry returned r for ticker t: lines 171-172
BatchResults(t, r) == IF r # None THEN DictSet(results, t, r) ELSE results

\* mutant of BatchContinues: continue_on_failure is ignored
BatchContinuesAlways(r) == TRUE

\* whether the loop goes on after fetch_with_retry returned r: lines 171-175
BatchContinues(r) == r # None \/ continue_on_failure

\* what processed keeps of one fetch_with_retry call
Processed(t, done, r) == [ticker |-> t, done |-> done, ret |-> r]

\* entry of fetch_batch: line 157
CallFetchBatch ==
  /\ Idle
  /\ \E ts \in TickerLists, fb \in BOOLEAN, delay \in Delays, cof \in BOOLEAN :
       /\ stats.total_attempts + Len(ts) <= MaxAttempts
       /\ tickers' = ts
       /\ has_fallback' = fb
       /\ rate_limit_delay' = delay
       /\ continue_on_failure' = cof
  /\ bpc' = "running"
  /\ i' = 0
  /\ results' = EmptyDict
  /\ processed' = <<>>
  /\ bpre' = Snapshot
  /\ resets' = 0
  /\ before_reset' = NoSnapshot
  /\ UNCHANGED <<other_vars, config_vars, tracker_vars, pc, ticker, quote_on, attempt, ret, calls, pre>>

\* the head of one iteration: lines 159-169, up to the entry of fetch_with_retry
BatchIteration ==
  /\ bpc = "running"
  /\ pc = "idle"
  /\ i < Len(tickers)
  /\ \E q \in 0 .. max_retries + 1 :
       EnterFetch(tickers[i + 1], q, SleepBetweenTickers(i, rate_limit_delay))
  /\ processed' = Append(processed, Processed(tickers[i + 1], FALSE, None))
  /\ UNCHANGED <<other_vars, config_vars, has_fallback, rate_limit_delay, bpc, tickers,
                 continue_on_failure, i, results, bpre, reset_vars>>

\* the tail of one iteration: lines 171-175
BatchAfterFetch ==
  /\ bpc = "running"
  /\ pc = "returned"
  /\ LeaveFetch
  /\ processed' = [processed EXCEPT ![Len(processed)] = Processed(ticker, TRUE, ret)]
  /\ results' = BatchResults(ticker, ret)
  /\ IF BatchContinues(ret)
     THEN i' = i + 1 /\ bpc' = "running"
     ELSE i' = i /\ bpc' = "done"
  /\ UNCHANGED <<other_vars, config_vars, tracker_vars, has_fallback, rate_limit_delay,
                 tickers, continue_on_failure, bpre, reset_vars>>

\* the loop has gone through all tickers: line 159
EndFetchBatch ==
  /\ bpc = "running"
  /\ pc = "idle"
  /\ i >= Len(tickers)
  /\ bpc' = "done"
  /\ UNCHANGED <<other_vars, config_vars, tracker_vars, fetch_vars, tickers, continue_on_failure,
                 i, results, processed, bpre, reset_vars>>

\* return results: line 177; afterwards the frame of fetch_batch is gone
ReturnFetchBatch ==
  /\ bpc = "done"
  /\ bpc' = "none"
  /\ tickers' = <<>>
  /\ continue_on_failure' = TRUE
  /\ i' = 0
  /\ results' = EmptyDict
  /\ processed' = <<>>
  /\ bpre' = NoSnapshot
  /\ has_fallback' = FALSE
  /\ rate_limit_delay' = 0
  /\ UNCHANGED <<other_vars, config_vars, tracker_vars, pc, ticker, quote_on, attempt, ret, calls,
                 pre, reset_vars>>

(* -------------------------------- reset ------------------------------- *)

\* mutant of ResetFailures: the failure map is not cleared
ResetFailuresKept == failed_tickers

\* ResilientFetcher.reset: the failure map afterwards, line 230
ResetFailures == EmptyDict

\* ResilientFetcher.reset: the statistics afterwards, lines 231-237
ResetStats == ZeroStats

reset ==
  /\ Idle
  /\ resets < MaxResets
  /\ failed_tickers' = ResetFailures
  /\ stats' = ResetStats
  /\ resets' = resets + 1
  /\ before_reset' = IF resets = 0 THEN Snapshot ELSE before_reset
  /\ UNCHANGED <<other_vars, config_vars, fetch_vars, batch_vars>>

(* ------------------------------ queries ------------------------------- *)

get_failures == failed_tickers
has_failures == Cardinality(DOMAIN failed_tickers) > 0
get_failure_count == Cardinality(DOMAIN failed_tickers)
get_stats == stats

\* an exact fraction, for the float get_success_rate returns
Rational(n, d) == [num |-> n, den |-> d]

\* mutant of get_success_rate: the fallback successes are not counted
get_success_rate_primary ==
  IF stats.total_attempts = 0 THEN Rational(100, 1)
  ELSE Rational(stats.primary_successes * 100, stats.total_attempts)

\* ResilientFetcher.get_success_rate: lines 223-226
get_success_rate ==
  IF stats.total_attempts = 0 THEN Rational(100, 1)
  ELSE Rational((stats.primary_successes + stats.fallback_successes) * 100,
                stats.total_attempts)

\* mutant of get_failures_shared: the dictionary itself is returned
get_failures_shared_ref == TRUE

\* get_failures returns self.failed_tickers itself: no, a copy (line 207)
get_failures_shared == FALSE

\* get_stats returns self.stats itself: no, a copy (line 219)
get_stats_shared == FALSE

(* --------------------------- specification ---------------------------- *)

Next ==
  \/ CallFetchWithRetry
  \/ PrimaryAttempt
  \/ FallbackAttempt
  \/ NoFallback
  \/ ReturnFetchWithRetry
  \/ CallFetchBatch
  \/ BatchIteration
  \/ BatchAfterFetch
  \/ EndFetchBatch
  \/ ReturnFetchBatch
  \/ reset

Spec == Init /\ [][Next]_vars

(* ------------------- the queries, called between calls ---------------- *)

Queries ==
  {"get_failures", "has_failures", "get_failure_count", "get_stats", "get_success_rate"}

\* what a query returns
QueryResult(q) ==
  CASE q = "get_failures" -> get_failures
    [] q = "has_failures" -> has_failures
    [] q = "get_failure_count" -> get_failure_count
    [] q = "get_stats" -> get_stats
    [] q = "get_success_rate" -> get_success_rate

\* whether the returned object is the fetcher's own dictionary
QueryShared(q) ==
  CASE q = "get_failures" -> get_failures_shared
    [] q = "get_stats" -> get_stats_shared
    [] OTHER -> FALSE

\* the caller calls one of the queries: lines 205-226
CallQuery ==
  /\ Idle
  /\ q_kind = "none"
  /\ \E q \in Queries :
       /\ q_kind' = q
       /\ q_ret' = QueryResult(q)
       /\ q_shared' = QueryShared(q)
  /\ q_mutated' = FALSE
  /\ q_before' = Tracker
  /\ UNCHANGED <<config_vars, tracker_vars, fetch_vars, batch_vars, reset_vars,
                 backoff_vars, app_vars, comparator_vars>>

\* the caller writes to the dictionary a query returned; the fetcher's own
\* dictionary changes with it only if it is the same object
MutateReturned ==
  /\ q_kind \in {"get_failures", "get_stats"}
  /\ ~q_mutated
  /\ q_mutated' = TRUE
  /\ IF q_kind = "get_failures"
     THEN /\ \E t \in Tickers : q_ret' = DictSet(q_ret, t, "changed")
          /\ failed_tickers' = IF q_shared THEN q_ret' ELSE failed_tickers
          /\ UNCHANGED stats
     ELSE /\ q_ret' = [q_ret EXCEPT !.total_failures = @ + 1]
          /\ stats' = IF q_shared THEN q_ret' ELSE stats
          /\ UNCHANGED failed_tickers
  /\ UNCHANGED <<config_vars, fetch_vars, batch_vars, reset_vars, backoff_vars,
                 app_vars, comparator_vars, q_kind, q_shared, q_before>>

\* the caller lets go of the result
DropReturned ==
  /\ q_kind # "none"
  /\ q_kind' = "none"
  /\ q_ret' = None
  /\ q_shared' = FALSE
  /\ q_mutated' = FALSE
  /\ q_before' = [stats |-> ZeroStats, failed_tickers |-> EmptyDict]
  /\ UNCHANGED <<config_vars, tracker_vars, fetch_vars, batch_vars, reset_vars,
                 backoff_vars, app_vars, comparator_vars>>

\* the fetcher's calls, with queries between them
NextQueries ==
  \/ q_kind = "none" /\ Next
  \/ CallQuery
  \/ MutateReturned
  \/ DropReturned

SpecQueries == Init /\ [][NextQueries]_vars

(* ------------------- _calculate_backoff, tabulated -------------------- *)

\* the backoff_base arguments of the fetchers whose delays are tabulated
BackoffBases == {Omitted} \cup {Given(n) : n \in 0 .. MaxBase}

\* a fetcher is constructed and a base_delay is picked
InitBackoff ==
  /\ max_retries_arg \in MaxRetriesArgs
  /\ backoff_base_arg \in BackoffBases
  /\ max_retries = InitMaxRetries(max_retries_arg)
  /\ backoff_base = InitBackoffBase(backoff_base_arg)
  /\ FetcherIdle
  /\ bk_base_delay \in 0 .. MaxFloor
  /\ bk_delays = <<>>
  /\ AppIdle
  /\ ComparatorIdle
  /\ QueriesIdle

\* _calculate_backoff is called with the next attempt index
CalculateBackoff ==
  /\ Len(bk_delays) <= MaxIndex
  /\ bk_delays' = Append(bk_delays, _calculate_backoff(Len(bk_delays), bk_base_delay))
  /\ UNCHANGED <<config_vars, tracker_vars, fetch_vars, batch_vars, reset_vars,
                 bk_base_delay, app_vars, comparator_vars, query_vars>>

NextBackoff == CalculateBackoff

SpecBackoff == InitBackoff /\ [][NextBackoff]_vars

(* ------- azure-functions/MyBlogSubscribers: the retry decorators ------ *)

\* @retry_table_operation(initial_delay=0.5), in milliseconds
TABLE_INITIAL_DELAY == 500
\* @retry_with_backoff(initial_delay=1.0), in milliseconds
MAILER_INITIAL_DELAY == 1000
\* backoff_factor=2.0 of both decorators
BACKOFF_FACTOR == 2
\* max_retries=3 of both decorators
DECORATED_MAX_RETRIES == 3
\* the max_retries a decorator is applied with
WrapRetries == 0 .. MaxWrapRetries \cup {DECORATED_MAX_RETRIES}

\* an exception: its class and its HTTP status (0 for a class that carries none)
Exception(cls, status) == [cls |-> cls, status |-> status]
\* no exception: the call returned
NoException == Exception("", 0)

\* the HTTP statuses of failed responses: client error, throttling, server error
Statuses == {400, 429, 500}

\* isinstance: ResourceExistsError and ResourceNotFoundError are subclasses of
\* HttpResponseError in azure.core.exceptions
IsInstance(e, cls) ==
  \/ e.cls = cls
  \/ cls = "HttpResponseError" /\ e.cls \in {"ResourceExistsError", "ResourceNotFoundError"}

\* what the service did with one call: the exception it surfaced as (or none)
\* and whether the operation was committed
Reply(e, committed) == [exc |-> e, committed |-> committed]

\* the events kept in w_log
Invoked(r) == [ev |-> "invoke", reply |-> r, d |-> 0]
Slept(d) == [ev |-> "sleep", reply |-> Reply(NoException, FALSE), d |-> d]

\* retry_table_operation.wrapper: the except clause of line 33
TableCaught(e) ==
  \/ IsInstance(e, "ServiceRequestError")
  \/ IsInstance(e, "HttpResponseError")
  \/ IsInstance(e, "ConnectionError")

\* mutant of TableRetryable: every failed response but a conflict is retried
TableRetryableButConflict(e) ==
  IF IsInstance(e, "HttpResponseError") THEN e.status # 409 ELSE TRUE

\* mutant of TableRetryable: every caught error is retried
TableRetryableAlways(e) == TRUE

\* retry_table_operation.wrapper: is_retryable of a caught exception, lines 38-46
TableRetryable(e) ==
  IF IsInstance(e, "HttpResponseError") THEN e.status >= 500 \/ e.status = 429 ELSE TRUE

\* mutant of TableRetries: the last attempt is followed by a sleep as well
TableRetriesOneMore(e, att) ==
  TableCaught(e) /\ att <= w_max_retries /\ TableRetryable(e)

\* retry_table_operation.wrapper: the wrapper sleeps and retries after func raised
\* e on loop index att (lines 33-55); otherwise it raises e (lines 58, 61, 64)
TableRetries(e, att) == TableCaught(e) /\ att < w_max_retries /\ TableRetryable(e)

\* whether the wrapper is over and the exception it raised (none: it returned)
WrapperOut(done, e) == [done |-> done, exc |-> e]

\* the loop of both wrappers: for attempt in range(max_retries + 1); the raise
\* after the loop (line 67, line 61 in mailer.py) is never reached
WrapperLoop == w_attempt \in 0 .. w_max_retries

\* entry of a wrapper: lines 27-30
EnterWrapper(initial_delay) ==
  /\ w_attempt' = 0
  /\ w_delay' = initial_delay
  /\ w_log' = <<>>
  /\ w_out' = WrapperOut(FALSE, NoException)

\* func raised and the wrapper retries: lines 53-55 (50-52 in mailer.py)
WrapperRetry(r) ==
  /\ w_log' = w_log \o <<Invoked(r), Slept(w_delay)>>
  /\ w_delay' = w_delay * BACKOFF_FACTOR
  /\ w_attempt' = w_attempt + 1
  /\ UNCHANGED w_out

\* func returned, or raised and the wrapper raises: lines 32, 58, 61, 64
WrapperLeave(r) ==
  /\ w_log' = Append(w_log, Invoked(r))
  /\ w_out' = WrapperOut(TRUE, r.exc)
  /\ UNCHANGED <<w_attempt, w_delay>>

\* the frame of the wrapper is gone
ClearWrapper ==
  /\ w_attempt' = 0
  /\ w_delay' = 0
  /\ w_log' = <<>>
  /\ w_out' = WrapperOut(FALSE, NoException)

(* ------------------- email_subscriber.subscribe_email ----------------- *)

\* an email address is a sequence of characters
RawEmails == {<<"a", "@", "x">>, <<" ", "A", "@", "x", " ">>, <<"b", "@", "x">>}

\* str.lower of one character
LowerChar(c) == CASE c = "A" -> "a" [] c = "B" -> "b" [] OTHER -> c

\* the whitespace characters among the characters of the addresses
Whitespace == {" ", "\n"}

\* str.strip
RECURSIVE Strip(_)
Strip(e) ==
  IF e = <<>> THEN e
  ELSE IF Head(e) \in Whitespace THEN Strip(Tail(e))
  ELSE IF e[Len(e)] \in Whitespace THEN Strip(SubSeq(e, 1, Len(e) - 1))
  ELSE e

\* validation.normalize_email: email.strip().lower()
normalize_email(e) == [k \in 1 .. Len(Strip(e)) |-> LowerChar(Strip(e)[k])]

\* the entity subscribe_email builds: lines 133-138
NewEntity(key) == [email |-> key, isActive |-> TRUE]

\* what table.create_entity can do for a key: create the entity; report that it
\* exists (409); fail without creating it; or create it and still surface as a
\* network error because the response was lost
CreateReplies(key) ==
  LET failures == {Exception("ServiceRequestError", 0), Exception("ValueError", 0)}
                    \cup {Exception("HttpResponseError", st) : st \in Statuses}
  IN  {Reply(e, FALSE) : e \in failures}
        \cup (IF key \in DOMAIN table
              THEN {Reply(Exception("ResourceExistsError", 409), FALSE)}
              ELSE {Reply(NoException, TRUE),
                    Reply(Exception("ServiceRequestError", 0), TRUE)})

\* mutant of SubscribeOutcome: a duplicate is reported as an error
SubscribeOutcomeStrict(e) == IF e = NoException THEN "created" ELSE "SubscriptionError"

\* subscribe_email: what the caller gets after _create_entity_with_retry returned
\* or raised e (lines 140-168)
SubscribeOutcome(e) ==
  IF e = NoException THEN "created"
  ELSE IF IsInstance(e, "ResourceExistsError") THEN "exists"
  ELSE "SubscriptionError"

\* subscribe_email up to the call of _create_entity_with_retry: lines 123-142;
\* get_table_client raises SubscriptionError without a connection string
EnterSubscribeEmail(raw, configured) ==
  /\ s_email' = normalize_email(raw)
  /\ s_pre' = DOMAIN table
  /\ IF configured
     THEN /\ s_pc' = "create"
          /\ s_result' = ""
          /\ EnterWrapper(TABLE_INITIAL_DELAY)
     ELSE /\ s_pc' = "returned"
          /\ s_result' = "SubscriptionError"
          /\ UNCHANGED <<w_attempt, w_delay, w_log, w_out>>

\* a call of subscribe_email
CallSubscribeEmail ==
  /\ s_pc = "idle"
  /\ m_pc = "idle"
  /\ ops < MaxOps
  /\ ops' = ops + 1
  /\ \E raw \in RawEmails, configured \in BOOLEAN : EnterSubscribeEmail(raw, configured)
  /\ UNCHANGED <<config_vars, tracker_vars, fetch_vars, batch_vars, reset_vars,
                 backoff_vars, comparator_vars, query_vars, ext_vars, mailer_vars, table,
                 w_max_retries>>

\* one pass of the wrapper loop around table.create_entity, and, when the
\* wrapper returns or raises, the rest of subscribe_email: lines 30-64, 101, 142-168
CreateEntityAttempt ==
  /\ s_pc = "create"
  /\ WrapperLoop
  /\ \E r \in CreateReplies(s_email) :
       /\ table' = IF r.committed THEN DictSet(table, s_email, NewEntity(s_email)) ELSE table
       /\ IF r.exc # NoException /\ TableRetries(r.exc, w_attempt)
          THEN /\ WrapperRetry(r)
               /\ UNCHANGED <<s_pc, s_result>>
          ELSE /\ WrapperLeave(r)
               /\ s_pc' = "returned"
               /\ s_result' = SubscribeOutcome(r.exc)
  /\ UNCHANGED <<config_vars, tracker_vars, fetch_vars, batch_vars, reset_vars,
                 backoff_vars, comparator_vars, query_vars, ext_vars, mailer_vars, ops,
                 w_max_retries, s_email, s_pre>>

\* subscribe_email hands its result to the caller: its frame is gone
ReturnSubscribeEmail ==
  /\ s_pc = "returned"
  /\ s_pc' = "idle"
  /\ s_email' = <<>>
  /\ s_pre' = {}
  /\ s_result' = ""
  /\ ClearWrapper
  /\ UNCHANGED <<config_vars, tracker_vars, fetch_vars, batch_vars, reset_vars,
                 backoff_vars, comparator_vars, query_vars, ext_vars, mailer_vars, ops, table,
                 w_max_retries>>

(* ------------------------------ mailer.py ----------------------------- *)

\* retry_with_backoff.wrapper: the except clause of line 33
MailCaught(e) ==
  \/ IsInstance(e, "ApiException")
  \/ IsInstance(e, "ConnectionError")
  \/ IsInstance(e, "TimeoutError")

\* mutant of MailRetryable: every caught error is retried
MailRetryableAlways(e) == TRUE

\* retry_with_backoff.wrapper: is_retryable of a caught exception, lines 38-43
MailRetryable(e) ==
  IF IsInstance(e, "ApiException") THEN e.status >= 500 \/ e.status = 429 ELSE TRUE

\* retry_with_backoff.wrapper: the wrapper sleeps and retries after func raised
\* e on loop index att (lines 33-52); otherwise it raises e (lines 55, 58)
MailRetries(e, att) == MailCaught(e) /\ att < w_max_retries /\ MailRetryable(e)

Addresses == {normalize_email(raw) : raw \in RawEmails}
RecipientLists == SeqsUpTo(Addresses, MaxRecipients)

\* what api_instance.send_transac_email can do: accept the mail, answer with a
\* failed response, fail on the network, or raise something else
SendReplies ==
  {Reply(NoException, TRUE)}
    \cup {Reply(Exception("ApiException", st), FALSE) : st \in Statuses}
    \cup {Reply(Exception(cls, 0), FALSE) : cls \in {"ConnectionError", "ValueError"}}

\* a MailerError and its message
MailerError(msg, status) == [cls |-> "MailerError", msg |-> msg, status |-> status]

\* mutant of SendEmailRaises: an unexpected exception is passed on as it is
SendEmailRaisesUnexpected(e) ==
  IF IsInstance(e, "ApiException") THEN MailerError("Brevo API error", e.status)
  ELSE [cls |-> e.cls, msg |-> "", status |-> e.status]

\* send_email: what it raises after _send_email_with_retry raised e, lines 163-175
SendEmailRaises(e) ==
  IF IsInstance(e, "ApiException") THEN MailerError("Brevo API error", e.status)
  ELSE MailerError("Unexpected error", 0)

\* send_bulk_email: the except clause of line 208
BulkCaught(x) == x.cls = "MailerError"

\* what m_sends keeps of one send_email call
SendCall(to_email, done, ok) == [to_email |-> to_email, done |-> done, ok |-> ok]

\* the rest of the loop body after send_email returned: lines 202-206
AfterSendEmailReturned ==
  /\ sent' = Append(sent, recipients[m_idx + 1])
  /\ m_sends' = [m_sends EXCEPT ![Len(m_sends)] = SendCall(recipients[m_idx + 1], TRUE, TRUE)]
  /\ m_idx' = m_idx + 1
  /\ m_pc' = "loop"
  /\ UNCHANGED failed

\* the rest of the loop body after send_email raised x: lines 208-214; an
\* exception the except clause does not catch leaves send_bulk_email
AfterSendEmailRaised(x) ==
  /\ m_sends' = [m_sends EXCEPT ![Len(m_sends)] = SendCall(recipients[m_idx + 1], TRUE, FALSE)]
  /\ IF BulkCaught(x)
     THEN /\ failed' = Append(failed, [email |-> recipients[m_idx + 1],
                                       error |-> [msg |-> x.msg, status |-> x.status]])
          /\ m_idx' = m_idx + 1
          /\ m_pc' = "loop"
     ELSE /\ m_pc' = "raised"
          /\ UNCHANGED <<failed, m_idx>>
  /\ UNCHANGED sent

\* entry of send_bulk_email: lines 193-197
CallSendBulkEmail ==
  /\ s_pc = "idle"
  /\ m_pc = "idle"
  /\ ops < MaxOps
  /\ ops' = ops + 1
  /\ \E rs \in RecipientLists, from_email \in BOOLEAN, api_key \in BOOLEAN :
       /\ recipients' = rs
       /\ m_from_email' = from_email
       /\ m_api_key' = api_key
  /\ m_pc' = "loop"
  /\ m_idx' = 0
  /\ sent' = <<>>
  /\ failed' = <<>>
  /\ m_sends' = <<>>
  /\ m_result' = Summary(0, 0, 0, <<>>)
  /\ UNCHANGED <<config_vars, tracker_vars, fetch_vars, batch_vars, reset_vars,
                 backoff_vars, comparator_vars, query_vars, ext_vars, wrapper_vars,
                 subscriber_vars>>

\* the next recipient: send_email up to the call of _send_email_with_retry
\* (lines 199-201, 122-146); without a sender address or an API key it raises
\* MailerError before anything is sent
SendEmailStart ==
  /\ m_pc = "loop"
  /\ m_idx < Len(recipients)
  /\ IF m_from_email /\ m_api_key
     THEN /\ m_sends' = Append(m_sends, SendCall(recipients[m_idx + 1], FALSE, FALSE))
          /\ EnterWrapper(MAILER_INITIAL_DELAY)
          /\ m_pc' = "send"
          /\ UNCHANGED <<m_idx, sent, failed>>
     ELSE /\ ClearWrapper
          /\ failed' = Append(failed,
               [email |-> recipients[m_idx + 1],
                error |-> [msg |-> IF m_from_email THEN "BREVO_API_KEY not configured"
                                   ELSE "BREVO_FROM_EMAIL not configured and no from_email provided",
                           status |-> 0]])
          /\ m_sends' = Append(m_sends, SendCall(recipients[m_idx + 1], TRUE, FALSE))
          /\ m_idx' = m_idx + 1
          /\ UNCHANGED <<m_pc, sent>>
  /\ UNCHANGED <<config_vars, tracker_vars, fetch_vars, batch_vars, reset_vars,
                 backoff_vars, comparator_vars, query_vars, ext_vars, ops, w_max_retries,
                 subscriber_vars, recipients, m_from_email, m_api_key, m_result>>

\* one pass of the wrapper loop around send_transac_email and, when the wrapper
\* returns or raises, the rest of send_email and of the loop body of
\* send_bulk_email: lines 30-58, 102, 146-175, 202-214
SendEmailAttempt ==
  /\ m_pc = "send"
  /\ WrapperLoop
  /\ \E r \in SendReplies :
       IF r.exc # NoException /\ MailRetries(r.exc, w_attempt)
       THEN /\ WrapperRetry(r)
            /\ UNCHANGED <<m_pc, m_idx, sent, failed, m_sends>>
       ELSE /\ WrapperLeave(r)
            /\ IF r.exc = NoException
               THEN AfterSendEmailReturned
               ELSE AfterSendEmailRaised(SendEmailRaises(r.exc))
  /\ UNCHANGED <<config_vars, tracker_vars, fetch_vars, batch_vars, reset_vars,
                 backoff_vars, comparator_vars, query_vars, ext_vars, ops, w_max_retries,
                 subscriber_vars, recipients, m_from_email, m_api_key, m_result>>

\* the loop is over: the summary is built, lines 216-228
EndSendBulkEmail ==
  /\ m_pc = "loop"
  /\ m_idx >= Len(recipients)
  /\ m_result' = Summary(Len(recipients), Len(sent), Len(failed), failed)
  /\ m_pc' = "done"
  /\ ClearWrapper
  /\ UNCHANGED <<config_vars, tracker_vars, fetch_vars, batch_vars, reset_vars,
                 backoff_vars, comparator_vars, query_vars, ext_vars, ops, w_max_retries,
                 subscriber_vars, recipients, m_from_email, m_api_key, m_idx, sent,
                 failed, m_sends>>

\* send_bulk_email hands the summary to the caller, or an exception has left
\* it: its frame is gone
ReturnSendBulkEmail ==
  /\ m_pc \in {"done", "raised"}
  /\ m_pc' = "idle"
  /\ recipients' = <<>>
  /\ m_from_email' = TRUE
  /\ m_api_key' = TRUE
  /\ m_idx' = 0
  /\ sent' = <<>>
  /\ failed' = <<>>
  /\ m_sends' = <<>>
  /\ m_result' = Summary(0, 0, 0, <<>>)
  /\ ClearWrapper
  /\ UNCHANGED <<config_vars, tracker_vars, fetch_vars, batch_vars, reset_vars,
                 backoff_vars, comparator_vars, query_vars, ext_vars, ops, w_max_retries,
                 subscriber_vars>>

(* ------- email_subscriber: unsubscribe_email, get_active_subscribers -- *)

\* the failures every table operation can answer with: a network error, an
\* exception of another kind, a failed response
TableFailures ==
  {Exception("ServiceRequestError", 0), Exception("ValueError", 0)}
    \cup {Exception("HttpResponseError", st) : st \in Statuses}

\* what table.get_entity can do for a key: return the entity, report that there
\* is none (404), or fail
GetReplies(key) ==
  {Reply(e, FALSE) : e \in TableFailures}
    \cup (IF key \in DOMAIN table
          THEN {Reply(NoException, FALSE)}
          ELSE {Reply(Exception("ResourceNotFoundError", 404), FALSE)})

\* what table.update_entity(mode='replace') can do for an entity that is there:
\* replace it, fail without replacing it, or replace it and still surface as a
\* network error because the response was lost
UpdateReplies ==
  {Reply(e, FALSE) : e \in TableFailures}
    \cup {Reply(NoException, TRUE), Reply(Exception("ServiceRequestError", 0), TRUE)}

\* what table.query_entities can do: list the entities, or fail
QueryReplies == {Reply(e, FALSE) : e \in TableFailures} \cup {Reply(NoException, FALSE)}

\* the RowKeys in the order in which the table lists its entities
SortedKeys == <<normalize_email(<<"a", "@", "x">>), normalize_email(<<"b", "@", "x">>)>>

\* the filter of get_active_subscribers: isActive eq true (line 203)
IsActive(tbl, key) == key \in DOMAIN tbl /\ tbl[key].isActive

\* get_active_subscribers: the emails of the entities the query lists, lines 203-209
ActiveEmails(tbl) ==
  LET keys == SelectSeq(SortedKeys, LAMBDA key : IsActive(tbl, key))
  IN  [k \in 1 .. Len(keys) |-> tbl[keys[k]].email]

\* unsubscribe_email: what the caller gets after the last wrapped operation
\* returned or raised e (lines 289-305)
UnsubscribeOutcome(e) ==
  IF e = NoException THEN "unsubscribed"
  ELSE IF IsInstance(e, "ResourceNotFoundError") THEN "SubscriptionError: Email not found"
  ELSE "SubscriptionError: Failed to unsubscribe"

\* unsubscribe_email up to the call of _get_entity_with_retry: lines 263-276
CallUnsubscribeEmail ==
  /\ s_pc = "idle"
  /\ m_pc = "idle"
  /\ u_pc = "idle"
  /\ a_pc = "idle"
  /\ ops < MaxOps
  /\ ops' = ops + 1
  /\ \E raw \in RawEmails, configured \in BOOLEAN :
       /\ u_email' = normalize_email(raw)
       /\ IF configured
          THEN /\ u_pc' = "get"
               /\ u_result' = ""
               /\ EnterWrapper(TABLE_INITIAL_DELAY)
          ELSE /\ u_pc' = "returned"
               /\ u_result' = "SubscriptionError: Storage connection not configured"
               /\ UNCHANGED <<w_attempt, w_delay, w_log, w_out>>
  /\ u_before' = table
  /\ u_entity' = NoEntity
  /\ u_calls' = <<>>
  /\ UNCHANGED <<config_vars, tracker_vars, fetch_vars, batch_vars, reset_vars,
                 backoff_vars, comparator_vars, query_vars, mailer_vars,
                 subscriber_vars, w_max_retries, runs, active_vars, job_vars,
                 http_vars>>

\* one pass of the wrapper loop around table.get_entity and, when the wrapper
\* returns or raises, what follows in unsubscribe_email: the entity is marked
\* inactive and _update_entity_with_retry is entered (lines 276-282), or
\* SubscriptionError is raised (lines 293-305)
GetEntityAttempt ==
  /\ u_pc = "get"
  /\ WrapperLoop
  /\ \E r \in GetReplies(u_email) :
       /\ u_calls' = Append(u_calls, "get_entity")
       /\ IF r.exc # NoException /\ TableRetries(r.exc, w_attempt)
          THEN /\ WrapperRetry(r)
               /\ UNCHANGED <<u_pc, u_entity, u_result>>
          ELSE IF r.exc = NoException
          THEN /\ u_entity' = [table[u_email] EXCEPT !.isActive = FALSE]
               /\ u_pc' = "update"
               /\ EnterWrapper(TABLE_INITIAL_DELAY)
               /\ UNCHANGED u_result
          ELSE /\ WrapperLeave(r)
               /\ u_pc' = "returned"
               /\ u_result' = UnsubscribeOutcome(r.exc)
               /\ UNCHANGED u_entity
  /\ UNCHANGED <<config_vars, tracker_vars, fetch_vars, batch_vars, reset_vars,
                 backoff_vars, comparator_vars, query_vars, mailer_vars,
                 subscriber_vars, ops, w_max_retries, runs, u_email, u_before,
                 active_vars, job_vars, http_vars>>

\* one pass of the wrapper loop around table.update_entity and, when the
\* wrapper returns or raises, the rest of unsubscribe_email: lines 282-305
UpdateEntityAttempt ==
  /\ u_pc = "update"
  /\ WrapperLoop
  /\ \E r \in UpdateReplies :
       /\ u_calls' = Append(u_calls, "update_entity")
       /\ table' = IF r.committed THEN DictSet(table, u_email, u_entity) ELSE table
       /\ IF r.exc # NoException /\ TableRetries(r.exc, w_attempt)
          THEN /\ WrapperRetry(r)
               /\ UNCHANGED <<u_pc, u_result>>
          ELSE /\ WrapperLeave(r)
               /\ u_pc' = "returned"
               /\ u_result' = UnsubscribeOutcome(r.exc)
  /\ UNCHANGED <<config_vars, tracker_vars, fetch_vars, batch_vars, reset_vars,
                 backoff_vars, comparator_vars, query_vars, mailer_vars, ops,
                 w_max_retries, s_pc, s_email, s_pre, s_result, runs, u_email,
                 u_entity, u_before, active_vars, job_vars, http_vars>>

\* unsubscribe_email hands its result to the caller: its frame is gone
ReturnUnsubscribeEmail ==
  /\ u_pc = "returned"
  /\ u_pc' = "idle"
  /\ u_email' = <<>>
  /\ u_entity' = NoEntity
  /\ u_before' = EmptyDict
  /\ u_calls' = <<>>
  /\ u_result' = ""
  /\ ClearWrapper
  /\ UNCHANGED <<config_vars, tracker_vars, fetch_vars, batch_vars, reset_vars,
                 backoff_vars, comparator_vars, query_vars, mailer_vars,
                 subscriber_vars, ops, w_max_retries, runs, active_vars, job_vars,
                 http_vars>>

\* get_active_subscribers up to the call of _query_entities_with_retry: lines 196-206
EnterGetActiveSubscribers(configured) ==
  IF configured
  THEN /\ a_pc' = "query"
       /\ a_result' = ActiveResult(FALSE, <<>>)
       /\ EnterWrapper(TABLE_INITIAL_DELAY)
  ELSE /\ a_pc' = "returned"
       /\ a_result' = ActiveResult(TRUE, <<>>)
       /\ UNCHANGED <<w_attempt, w_delay, w_log, w_out>>

\* a call of get_active_subscribers
CallGetActiveSubscribers ==
  /\ s_pc = "idle"
  /\ m_pc = "idle"
  /\ u_pc = "idle"
  /\ a_pc = "idle"
  /\ j_pc = "idle"
  /\ ops < MaxOps
  /\ ops' = ops + 1
  /\ \E configured \in BOOLEAN : EnterGetActiveSubscribers(configured)
  /\ UNCHANGED <<config_vars, tracker_vars, fetch_vars, batch_vars, reset_vars,
                 backoff_vars, comparator_vars, query_vars, mailer_vars,
                 subscriber_vars, w_max_retries, runs, unsub_vars, job_vars,
                 http_vars>>

\* one pass of the wrapper loop around table.query_entities and, when the
\* wrapper returns or raises, the rest of get_active_subscribers: lines 206-223
QueryEntitiesAttempt ==
  /\ a_pc = "query"
  /\ WrapperLoop
  /\ \E r \in QueryReplies :
       IF r.exc # NoException /\ TableRetries(r.exc, w_attempt)
       THEN /\ WrapperRetry(r)
            /\ UNCHANGED <<a_pc, a_result>>
       ELSE /\ WrapperLeave(r)
            /\ a_pc' = "returned"
            /\ a_result' = IF r.exc = NoException
                           THEN ActiveResult(FALSE, ActiveEmails(table))
                           ELSE ActiveResult(TRUE, <<>>)
  /\ UNCHANGED <<config_vars, tracker_vars, fetch_vars, batch_vars, reset_vars,
                 backoff_vars, comparator_vars, query_vars, mailer_vars,
                 subscriber_vars, ops, w_max_retries, runs, unsub_vars, job_vars,
                 http_vars>>

\* get_active_subscribers hands its result to the caller: its frame is gone
ReturnGetActiveSubscribers ==
  /\ a_pc = "returned"
  /\ j_pc = "idle"
  /\ a_pc' = "idle"
  /\ a_result' = ActiveResult(FALSE, <<>>)
  /\ ClearWrapper
  /\ UNCHANGED <<config_vars, tracker_vars, fetch_vars, batch_vars, reset_vars,
                 backoff_vars, comparator_vars, query_vars, mailer_vars,
                 subscriber_vars, ops, w_max_retries, runs, unsub_vars, job_vars,
                 http_vars>>

(* ----------------- weekly_job.send_weekly_newsletter ------------------ *)

\* what get_weekly_email_content finds: the answer of the GitHub API, whether
\* STORAGE_CONNECTION_STRING is set, the blob and the HTML in it
ContentEnvs ==
  [github : {"posts", "request_error", "parse_error", "no_posts", "other_error"},
   connection_string : BOOLEAN,
   blob : {"downloaded", "missing", "client_error", "decode_error"},
   html : {"valid", "empty", "no_tags"}]

\* get_latest_week_number: the class of the exception it raises, "" if it
\* returns a week number (lines 34-67); an exception that is neither a
\* RequestException nor a KeyError / ValueError passes through
get_latest_week_number(env) ==
  IF env.github \in {"request_error", "parse_error", "no_posts"} THEN "FileNotFoundError"
  ELSE IF env.github = "other_error" THEN "TypeError"
  ELSE ""

\* get_weekly_email_content: the class of the exception it raises, "" if it
\* returns the subject and the validated HTML (lines 85-168)
get_weekly_email_content(env) ==
  IF get_latest_week_number(env) # "" THEN get_latest_week_number(env)
  ELSE IF ~env.connection_string THEN "IOError"
  ELSE IF env.blob = "missing" THEN "FileNotFoundError"
  ELSE IF env.blob = "decode_error" THEN "ValueError"
  ELSE IF env.blob = "client_error" THEN "IOError"
  ELSE IF env.html \in {"empty", "no_tags"} THEN "ValueError"
  ELSE ""

\* mutant of ContentRaised: a failure of the content retrieval is ignored
ContentRaisedNever(cls) == FALSE

\* whether get_weekly_email_content left with an exception of class cls
ContentRaised(cls) == cls # ""

\* send_weekly_newsletter: the error_type of the except clause that catches an
\* exception of class cls, lines 212-271
ErrorType(cls) ==
  CASE cls = "FileNotFoundError" -> "missing_newsletter"
    [] cls = "ValueError" -> "invalid_newsletter"
    [] cls = "IOError" -> "file_access_error"
    [] cls = "SubscriptionError" -> "subscription_error"
    [] cls = "MailerError" -> "mailer_error"
    [] OTHER -> "unexpected_error"

\* the dictionary the except clauses return
JobError(cls) == JobResult("error", ErrorType(cls), 0, 0, 0)

\* send_weekly_newsletter up to the call of _query_entities_with_retry inside
\* get_active_subscribers: line 180
CallSendWeeklyNewsletter ==
  /\ s_pc = "idle"
  /\ m_pc = "idle"
  /\ u_pc = "idle"
  /\ a_pc = "idle"
  /\ j_pc = "idle"
  /\ ops < MaxOps
  /\ ops' = ops + 1
  /\ j_pc' = "subscribers"
  /\ \E configured \in BOOLEAN : EnterGetActiveSubscribers(configured)
  /\ UNCHANGED <<config_vars, tracker_vars, fetch_vars, batch_vars, reset_vars,
                 backoff_vars, comparator_vars, query_vars, mailer_vars,
                 subscriber_vars, w_max_retries, runs, unsub_vars, j_subscribers,
                 j_content, j_result, http_vars>>

\* get_active_subscribers is over: the test of the list, the content retrieval
\* and the entry of send_bulk_email (lines 180-202, 193-197 of mailer.py), or
\* the return of one of lines 184-190, 212-251, 262-271; the connection string
\* get_table_client found at line 90 of email_subscriber.py is still set
AfterGetActiveSubscribers ==
  /\ j_pc = "subscribers"
  /\ a_pc = "returned"
  /\ a_pc' = "idle"
  /\ a_result' = ActiveResult(FALSE, <<>>)
  /\ ClearWrapper
  /\ j_subscribers' = a_result.emails
  /\ IF a_result.raised
     THEN /\ j_result' = JobError("SubscriptionError")
          /\ j_pc' = "returned"
          /\ UNCHANGED <<j_content, mailer_vars>>
     ELSE IF a_result.emails = <<>>
     THEN /\ j_result' = JobResult("completed", "", 0, 0, 0)
          /\ j_pc' = "returned"
          /\ UNCHANGED <<j_content, mailer_vars>>
     ELSE \E env \in {e \in ContentEnvs : e.connection_string} :
            IF ContentRaised(get_weekly_email_content(env))
            THEN /\ j_content' = get_weekly_email_content(env)
                 /\ j_result' = JobError(get_weekly_email_content(env))
                 /\ j_pc' = "returned"
                 /\ UNCHANGED mailer_vars
            ELSE /\ j_content' = IF get_weekly_email_content(env) = ""
                                 THEN "returned" ELSE get_weekly_email_content(env)
                 /\ j_pc' = "sending"
                 /\ \E from_email \in BOOLEAN, api_key \in BOOLEAN :
                      /\ m_from_email' = from_email
                      /\ m_api_key' = api_key
                 /\ recipients' = a_result.emails
                 /\ m_pc' = "loop"
                 /\ m_idx' = 0
                 /\ sent' = <<>>
                 /\ failed' = <<>>
                 /\ m_sends' = <<>>
                 /\ m_result' = Summary(0, 0, 0, <<>>)
                 /\ UNCHANGED j_result
  /\ UNCHANGED <<config_vars, tracker_vars, fetch_vars, batch_vars, reset_vars,
                 backoff_vars, comparator_vars, query_vars, subscriber_vars, ops,
                 w_max_retries, runs, unsub_vars, http_vars>>

\* send_bulk_email is over: the dictionary of lines 206-210, or the one of an
\* except clause if an exception left send_bulk_email (lines 252-271)
AfterSendBulkEmail ==
  /\ j_pc = "sending"
  /\ m_pc \in {"done", "raised"}
  /\ j_result' = IF m_pc = "done"
                 THEN JobResult("completed", "", m_result.total, m_result.sent,
                                m_result.failed)
                 ELSE JobError("Exception")
  /\ j_pc' = "returned"
  /\ m_pc' = "idle"
  /\ recipients' = <<>>
  /\ m_from_email' = TRUE
  /\ m_api_key' = TRUE
  /\ m_idx' = 0
  /\ sent' = <<>>
  /\ failed' = <<>>
  /\ m_sends' = <<>>
  /\ m_result' = Summary(0, 0, 0, <<>>)
  /\ ClearWrapper
  /\ UNCHANGED <<config_vars, tracker_vars, fetch_vars, batch_vars, reset_vars,
                 backoff_vars, comparator_vars, query_vars, subscriber_vars, ops,
                 w_max_retries, runs, unsub_vars, active_vars, j_subscribers,
                 j_content, http_vars>>

\* send_weekly_newsletter hands its dictionary to the timer trigger: its frame
\* is gone
ReturnSendWeeklyNewsletter ==
  /\ j_pc = "returned"
  /\ j_pc' = "idle"
  /\ j_subscribers' = <<>>
  /\ j_content' = ""
  /\ j_result' = NoJobResult
  /\ UNCHANGED <<config_vars, tracker_vars, fetch_vars, batch_vars, reset_vars,
                 backoff_vars, comparator_vars, query_vars, mailer_vars,
                 subscriber_vars, wrapper_vars, ops, runs, unsub_vars, active_vars,
                 http_vars>>

(* ------------------- function_app.subscribe_email -------------------- *)

\* the character class [^\s@] of email_regex
LocalChar(c) == c \notin Whitespace /\ c # "@"

\* re.match(email_regex, email) for ^[^\s@]+@[^\s@]+\.[^\s@]+$ : three runs of
\* [^\s@], the first two separated by "@", the last two by a "."; $ matches at
\* the end and also before a newline that ends the string
EmailMatches(e) ==
  \E n \in {Len(e)} \cup (IF e # <<>> /\ e[Len(e)] = "\n" THEN {Len(e) - 1} ELSE {}) :
    \E at \in 1 .. n, dot \in 1 .. n :
      /\ e[at] = "@"
      /\ e[dot] = "."
      /\ 1 < at
      /\ at + 1 < dot
      /\ dot < n
      /\ \A k \in (1 .. n) \ {at} : LocalChar(e[k])

\* `not email` of line 45
Falsy(v) ==
  \/ v.type = "null"
  \/ v.type = "number" /\ v.number = 0
  \/ v.type = "string" /\ v.chars = <<>>

\* the strings a request can carry as its email
HandlerStrings ==
  {<<>>,
   <<"a", "@", "x">>,
   <<"a", "@", "x", ".", "y">>,
   <<"A", "@", "x", ".", "y", "\n">>,
   <<" ", "a", "@", "x", ".", "y">>,
   <<"a", "@", "x", ".">>,
   <<"a", "@", "@", "x", ".", "y">>,
   <<"b", "@", "x", ".", "y", ".", "z">>}

\* the requests the route accepts: OPTIONS or POST; the body is not JSON, a
\* JSON object, or JSON of another kind (an array)
Requests ==
  {HttpRequest("OPTIONS", "unparsable", JsonNull)}
    \cup {HttpRequest("POST", body, JsonNull) : body \in {"unparsable", "array"}}
    \cup {HttpRequest("POST", "object", v) :
            v \in {JsonNull, JsonNumber(0), JsonNumber(1)}
                    \cup {JsonString(e) : e \in HandlerStrings}}

\* the handler up to the call of subscribe_email_logic: what it answers before
\* that call (lines 27-59), "" if it goes on to the call; an AttributeError of
\* req_body.get and a TypeError of re.match are not caught
EarlyAnswer(req) ==
  IF req.method = "OPTIONS" THEN HttpResponse(204, "", "")
  ELSE IF req.body = "unparsable" THEN HttpResponse(400, "Invalid request body", "")
  ELSE IF req.body # "object" THEN HttpResponse(0, "", "AttributeError")
  ELSE IF Falsy(req.email) THEN HttpResponse(400, "Email is required", "")
  ELSE IF req.email.type # "string" THEN HttpResponse(0, "", "TypeError")
  ELSE IF ~EmailMatches(req.email.chars) THEN HttpResponse(400, "Invalid email format", "")
  ELSE HttpResponse(0, "", "")

\* a request arrives: the handler answers it at once or calls
\* subscribe_email_logic, which runs up to _create_entity_with_retry
HandleRequest ==
  /\ s_pc = "idle"
  /\ m_pc = "idle"
  /\ u_pc = "idle"
  /\ a_pc = "idle"
  /\ j_pc = "idle"
  /\ h_pc = "idle"
  /\ ops < MaxOps
  /\ ops' = ops + 1
  /\ \E req \in Requests :
       /\ h_request' = req
       /\ IF EarlyAnswer(req) # HttpResponse(0, "", "")
          THEN /\ h_response' = EarlyAnswer(req)
               /\ h_pc' = "returned"
               /\ UNCHANGED <<subscriber_vars, w_attempt, w_delay, w_log, w_out>>
          ELSE /\ h_pc' = "storage"
               /\ \E configured \in BOOLEAN : EnterSubscribeEmail(req.email.chars, configured)
               /\ UNCHANGED <<h_response, table>>
  /\ UNCHANGED <<config_vars, tracker_vars, fetch_vars, batch_vars, reset_vars,
                 backoff_vars, comparator_vars, query_vars, mailer_vars,
                 w_max_retries, runs, unsub_vars, active_vars, job_vars>>

\* the message of the dictionary subscribe_email returns with a status:
\* lines 149-152, 159-162 of email_subscriber.py
SubscribeMessage(status) ==
  IF status = "created" THEN "Thank you for subscribing! You'll receive weekly updates."
  ELSE "You're already subscribed!"

\* the answer to what subscribe_email_logic returned or raised: lines 62-87
StorageAnswer(result) ==
  IF result \in {"created", "exists"} THEN HttpResponse(200, SubscribeMessage(result), "")
  ELSE HttpResponse(500, "Service configuration error", "")

\* subscribe_email_logic is over: the handler builds its response
AfterSubscribeEmailLogic ==
  /\ h_pc = "storage"
  /\ s_pc = "returned"
  /\ h_response' = StorageAnswer(s_result)
  /\ h_pc' = "returned"
  /\ s_pc' = "idle"
  /\ s_email' = <<>>
  /\ s_pre' = {}
  /\ s_result' = ""
  /\ ClearWrapper
  /\ UNCHANGED <<config_vars, tracker_vars, fetch_vars, batch_vars, reset_vars,
                 backoff_vars, comparator_vars, query_vars, mailer_vars, ops, table,
                 w_max_retries, runs, unsub_vars, active_vars, job_vars, h_request>>

\* the response leaves: the handler's frame is gone
ReturnResponse ==
  /\ h_pc = "returned"
  /\ h_pc' = "idle"
  /\ h_request' = HttpRequest("", "", JsonNull)
  /\ h_response' = HttpResponse(0, "", "")
  /\ UNCHANGED <<config_vars, tracker_vars, fetch_vars, batch_vars, reset_vars,
                 backoff_vars, comparator_vars, query_vars, mailer_vars,
                 subscriber_vars, wrapper_vars, ops, runs, unsub_vars, active_vars,
                 job_vars>>

\* the next invocation of the function app begins: a new request or timer tick
NextInvocation ==
  /\ s_pc = "idle"
  /\ m_pc = "idle"
  /\ u_pc = "idle"
  /\ a_pc = "idle"
  /\ j_pc = "idle"
  /\ h_pc = "idle"
  /\ ops = MaxOps
  /\ runs < MaxRuns
  /\ runs' = runs + 1
  /\ ops' = 0
  /\ UNCHANGED <<config_vars, tracker_vars, fetch_vars, batch_vars, reset_vars,
                 backoff_vars, comparator_vars, query_vars, mailer_vars,
                 subscriber_vars, wrapper_vars, unsub_vars, active_vars, job_vars,
                 http_vars>>

(* ---------------- specification of the function app ------------------- *)

\* the tables the service can hold: some addresses are subscribed
Tables ==
  {[key \in keys |-> NewEntity(key)] : keys \in SUBSET {normalize_email(raw) : raw \in RawEmails}}

\* the decorators are applied with some max_retries; the table holds some
\* subscribers
InitApp ==
  /\ max_retries_arg = Omitted
  /\ backoff_base_arg = Omitted
  /\ max_retries = InitMaxRetries(max_retries_arg)
  /\ backoff_base = InitBackoffBase(backoff_base_arg)
  /\ FetcherIdle
  /\ BackoffIdle
  /\ table \in Tables
  /\ ops = 0
  /\ w_max_retries \in WrapRetries
  /\ WrapperIdle
  /\ SubscriberIdle
  /\ MailerIdle
  /\ FunctionsIdle
  /\ ComparatorIdle
  /\ QueriesIdle

NextApp ==
  \/ CallSubscribeEmail
  \/ CreateEntityAttempt
  \/ ReturnSubscribeEmail
  \/ CallSendBulkEmail
  \/ SendEmailStart
  \/ SendEmailAttempt
  \/ EndSendBulkEmail
  \/ ReturnSendBulkEmail

SpecApp == InitApp /\ [][NextApp]_vars

(* ------------- the subscriber functions, called in sequence ----------- *)

\* the functions are decorated with max_retries=3; the table holds some
\* subscribers
InitSubscribers ==
  /\ max_retries_arg = Omitted
  /\ backoff_base_arg = Omitted
  /\ max_retries = InitMaxRetries(max_retries_arg)
  /\ backoff_base = InitBackoffBase(backoff_base_arg)
  /\ FetcherIdle
  /\ BackoffIdle
  /\ table \in Tables
  /\ ops = 0
  /\ w_max_retries = DECORATED_MAX_RETRIES
  /\ WrapperIdle
  /\ SubscriberIdle
  /\ MailerIdle
  /\ FunctionsIdle
  /\ ComparatorIdle
  /\ QueriesIdle

NextSubscribers ==
  \/ u_pc = "idle" /\ a_pc = "idle" /\ CallSubscribeEmail
  \/ CreateEntityAttempt
  \/ ReturnSubscribeEmail
  \/ CallUnsubscribeEmail
  \/ GetEntityAttempt
  \/ UpdateEntityAttempt
  \/ ReturnUnsubscribeEmail
  \/ CallGetActiveSubscribers
  \/ QueryEntitiesAttempt
  \/ ReturnGetActiveSubscribers
  \/ CallSendWeeklyNewsletter
  \/ AfterGetActiveSubscribers
  \/ j_pc = "sending" /\ SendEmailStart
  \/ j_pc = "sending" /\ SendEmailAttempt
  \/ j_pc = "sending" /\ EndSendBulkEmail
  \/ AfterSendBulkEmail
  \/ ReturnSendWeeklyNewsletter
  \/ NextInvocation

\* the HTTP trigger alone: requests of the SubscribeEmail route
NextHandler ==
  \/ HandleRequest
  \/ CreateEntityAttempt
  \/ AfterSubscribeEmailLogic
  \/ ReturnResponse
  \/ NextInvocation

SpecHandler == InitSubscribers /\ [][NextHandler]_vars

SpecSubscribers == InitSubscribers /\ [][NextSubscribers]_vars

(* ------------- scripts/compare_api_prices.py: rate limiting ----------- *)

\* self.alphavantage_min_interval, in seconds
ALPHAVANTAGE_MIN_INTERVAL == 12
\* self.finnhub_min_interval, in seconds
FINNHUB_MIN_INTERVAL == 12
\* Retry(total=3) of the session's HTTPAdapter
SESSION_RETRY_TOTAL == 3

\* the rate-limited fetch methods and their providers
Methods ==
  {"fetch_alphavantage_stock", "fetch_alphavantage_crypto",
   "fetch_finnhub_stock", "fetch_finnhub_crypto"}
Provider(m) ==
  IF m \in {"fetch_alphavantage_stock", "fetch_alphavantage_crypto"}
  THEN "Alpha Vantage" ELSE "Finnhub"

\* mutant of HasKey: the key is not tested
HasKeyAlways(m) == TRUE

\* the first statement of each method: if not self.<provider>_key: return None
HasKey(m) == IF Provider(m) = "Alpha Vantage" THEN alphavantage_key ELSE finnhub_key
\* the arguments each method hands to _wait_for_rate_limit
LastCall(m) ==
  IF Provider(m) = "Alpha Vantage" THEN last_alphavantage_call ELSE last_finnhub_call
MinInterval(prov) ==
  IF prov = "Alpha Vantage" THEN ALPHAVANTAGE_MIN_INTERVAL ELSE FINNHUB_MIN_INTERVAL

\* APIPriceComparator._wait_for_rate_limit: the time it sleeps
_wait_for_rate_limit(last_call_time, min_interval) ==
  LET elapsed == now - last_call_time
  IN  IF elapsed < min_interval THEN min_interval - elapsed ELSE 0

\* the responses of a provider: success, a client error, throttling, a server error
Responses == {200, 404, 429, 503}
\* Retry(status_forcelist=[429, 500, 502, 503, 504], allowed_methods=["GET"])
StatusForcelist == {429, 500, 502, 503, 504}
\* the sleep of the session before its n-th retry: backoff_factor=1 doubles from
\* 1 s, and the first retry may be immediate
SessionBackoff(n) == IF n = 1 THEN {0, 1} ELSE {Pow(2, n - 1)}

Request(m) == [provider |-> Provider(m), at |-> now]

\* a fetch method up to the end of _wait_for_rate_limit: lines 76-79; without an
\* API key it returns None at once
CallFetchMethod ==
  /\ c_pc = "idle"
  /\ c_calls < MaxCalls
  /\ c_calls' = c_calls + 1
  /\ \E m \in Methods :
       IF HasKey(m)
       THEN /\ c_method' = m
            /\ c_start' = now
            /\ c_last' = LastCall(m)
            /\ c_slept' = _wait_for_rate_limit(LastCall(m), MinInterval(Provider(m)))
            /\ now' = now + _wait_for_rate_limit(LastCall(m), MinInterval(Provider(m)))
            /\ c_pc' = "waited"
            /\ UNCHANGED c_retries
       ELSE UNCHANGED <<now, c_pc, c_method, c_start, c_last, c_slept, c_retries>>
  /\ UNCHANGED <<alphavantage_key, finnhub_key, last_alphavantage_call,
                 last_finnhub_call, requests>>
  /\ UNCHANGED <<config_vars, tracker_vars, fetch_vars, batch_vars, reset_vars,
                 backoff_vars, app_vars, query_vars>>

\* the last-call time is recorded and session.get issues the request: lines 89-90
IssueRequest ==
  /\ c_pc = "waited"
  /\ IF Provider(c_method) = "Alpha Vantage"
     THEN last_alphavantage_call' = now /\ UNCHANGED last_finnhub_call
     ELSE last_finnhub_call' = now /\ UNCHANGED last_alphavantage_call
  /\ requests' = Append(requests, Request(c_method))
  /\ c_retries' = 0
  /\ c_pc' = "sent"
  /\ UNCHANGED <<now, alphavantage_key, finnhub_key, c_method, c_start, c_last,
                 c_slept, c_calls>>
  /\ UNCHANGED <<config_vars, tracker_vars, fetch_vars, batch_vars, reset_vars,
                 backoff_vars, app_vars, query_vars>>

\* the provider answers; for a status of the forcelist the session sleeps and
\* issues the request again while retries are left (lines 46-55, 90), otherwise
\* the method returns its result (lines 91-125)
Respond ==
  /\ c_pc = "sent"
  /\ \E status \in Responses :
       IF status \in StatusForcelist /\ c_retries < SESSION_RETRY_TOTAL
       THEN \E d \in SessionBackoff(c_retries + 1) :
              /\ now' = now + d
              /\ requests' = Append(requests, [provider |-> Provider(c_method), at |-> now + d])
              /\ c_retries' = c_retries + 1
              /\ UNCHANGED <<c_pc, c_method, c_start, c_last, c_slept>>
       ELSE /\ c_pc' = "idle"
            /\ c_method' = ""
            /\ c_start' = 0
            /\ c_last' = 0
            /\ c_slept' = 0
            /\ c_retries' = 0
            /\ UNCHANGED <<now, requests>>
  /\ UNCHANGED <<alphavantage_key, finnhub_key, last_alphavantage_call,
                 last_finnhub_call, c_calls>>
  /\ UNCHANGED <<config_vars, tracker_vars, fetch_vars, batch_vars, reset_vars,
                 backoff_vars, app_vars, query_vars>>

\* a second passes between two calls
Tick ==
  /\ c_pc = "idle"
  /\ now < MaxClock
  /\ now' = now + 1
  /\ UNCHANGED <<alphavantage_key, finnhub_key, last_alphavantage_call,
                 last_finnhub_call, c_pc, c_method, c_start, c_last, c_slept,
                 c_retries, c_calls, requests>>
  /\ UNCHANGED <<config_vars, tracker_vars, fetch_vars, batch_vars, reset_vars,
                 backoff_vars, app_vars, query_vars>>

\* a comparator is constructed with some of its API keys: lines 34-62
InitComparator ==
  /\ max_retries_arg = Omitted
  /\ backoff_base_arg = Omitted
  /\ max_retries = InitMaxRetries(max_retries_arg)
  /\ backoff_base = InitBackoffBase(backoff_base_arg)
  /\ FetcherIdle
  /\ BackoffIdle
  /\ AppIdle
  /\ now = StartTime
  /\ alphavantage_key \in BOOLEAN
  /\ finnhub_key \in BOOLEAN
  /\ last_alphavantage_call = 0
  /\ last_finnhub_call = 0
  /\ ComparatorFrameIdle
  /\ c_calls = 0
  /\ requests = <<>>
  /\ QueriesIdle

NextComparator ==
  \/ CallFetchMethod
  \/ IssueRequest
  \/ Respond
  \/ Tick

SpecComparator == InitComparator /\ [][NextComparator]_vars

(* ------------------------------ claims -------------------------------- *)

\* what the current fetch_with_retry call has added to a counter
Delta(field) == stats[field] - pre.stats[field]
PrimaryCalls == EventsAt(calls, "primary")
FallbackCalls == EventsAt(calls, "fallback")
RetrySleeps == {k \in EventsAt(calls, "sleep") : calls[k].out = "retry"}
Resolved == stats.primary_successes + stats.fallback_successes + stats.total_failures
InBatch == bpc \in {"running", "done"}
Finished == {k \in 1 .. Len(processed) : processed[k].done}
Failed == {k \in Finished : processed[k].ret = None}
Succeeded == {k \in Finished : processed[k].ret # None}
Occurrences(t) == {k \in 1 .. Len(tickers) : tickers[k] = t}
\* fetch_batch was entered on a freshly constructed or reset fetcher
Fresh == bpre.stats = ZeroStats /\ bpre.failed = {}

\* C1: in every reachable state, also in the middle of a fetch,
\* primary_successes + fallback_successes + total_failures <= total_attempts.
C1_ResolvedAtMostAttempts == Resolved <= stats.total_attempts

C1_Witness ==
  /\ pc = "loop"
  /\ attempt > 0
  /\ stats.total_attempts = 2
  /\ stats.total_failures = 1
  /\ Resolved = 1

\* C2 (as claimed): the primary is never invoked more than max_retries + 1 times
\* for one ticker, and a fetch whose primary attempts all fail with a transient
\* error invokes it exactly max_retries + 1 times before the fallback or the
\* recorded failure.
C2_PrimaryInvokedMaxRetriesPlusOne ==
  /\ Cardinality(PrimaryCalls) <= max_retries + 1
  /\ ( /\ pc = "returned"
       /\ ret.source # "primary"
       /\ \A k \in PrimaryCalls : calls[k].out = "transient" )
     => Cardinality(PrimaryCalls) = max_retries + 1

\* C3 (as claimed): for every K in 1 .. max_retries + 1, a primary that fails on
\* its calls 1 .. K-1 and returns a quote on call K makes fetch_with_retry return
\* that quote, with retries_used + (K-1), primary_successes + 1 and
\* fallback_successes and total_failures unchanged.
C3_QuoteOnKthAttempt ==
  (pc = "returned" /\ quote_on \in 1 .. max_retries + 1)
  => /\ ret = Quote(ticker, "primary")
     /\ Delta("retries_used") = quote_on - 1
     /\ Delta("primary_successes") = 1
     /\ Delta("fallback_successes") = 0
     /\ Delta("total_failures") = 0

\* C4 (as claimed): when the first primary call raises a client error and no
\* fallback is given, the primary is invoked exactly once, nothing sleeps,
\* total_failures grows by one and the empty result is returned.
C4_ClientErrorNotRetried ==
  ( /\ pc = "returned"
    /\ ~has_fallback
    /\ PrimaryCalls # {}
    /\ \A k \in PrimaryCalls : (\A j \in PrimaryCalls : k <= j) => calls[k].out = "client" )
  => /\ Cardinality(PrimaryCalls) = 1
     /\ RetrySleeps = {}
     /\ Delta("total_failures") = 1
     /\ ret = None

\* C5: a fetch whose fallback returns a quote returns that quote, adds one to
\* fallback_successes, leaves total_failures, retries_used and the failure map
\* as they were, and in fetch_batch its ticker is a key of the mapping.
C5_FallbackQuote ==
  /\ ( /\ pc = "returned"
       /\ \E k \in FallbackCalls : calls[k].out = "quote" )
     => /\ ret = Quote(ticker, "fallback")
        /\ Delta("fallback_successes") = 1
        /\ Delta("total_failures") = 0
        /\ Delta("retries_used") = 0
        /\ Delta("primary_successes") = 0
        /\ DOMAIN failed_tickers = pre.failed
  /\ InBatch
     => \A k \in Finished :
          processed[k].ret.source = "fallback"
          => /\ processed[k].ticker \in DOMAIN results
             /\ results[processed[k].ticker].ticker = processed[k].ticker

C5_Witness ==
  /\ bpc = "done"
  /\ max_retries = DEFAULT_MAX_RETRIES
  /\ \E k \in Finished : processed[k].ret = Quote(tickers[k], "fallback")
  /\ stats.fallback_successes = 1
  /\ stats.retries_used = 0

\* what C6 says of one failed fetch_with_retry call: the empty result is returned,
\* the ticker is a key of the failure map, total_failures grows by one and
\* retries_used is unchanged
C6_FailedFetch ==
  (pc = "returned" /\ ret.source \notin {"primary", "fallback"})
  => /\ ret = None
     /\ ticker \in DOMAIN failed_tickers
     /\ failed_tickers[ticker] = EXHAUSTED_MESSAGE
     /\ Delta("total_failures") = 1
     /\ Delta("retries_used") = 0
     /\ Delta("primary_successes") = 0
     /\ Delta("fallback_successes") = 0

\* C6 (as claimed): C6_FailedFetch, and the key of every ticker whose fetch failed
\* is absent from the mapping fetch_batch returns.
C6_FailedKeyAbsent ==
  /\ C6_FailedFetch
  /\ bpc = "done" => \A k \in Failed : processed[k].ticker \notin DOMAIN results

\* C6 (amended): C6_FailedFetch, and the key of a ticker whose fetch failed is
\* absent from the mapping fetch_batch returns unless another occurrence of the
\* same key in the list succeeded.
C6_FailedKeyAbsentUnlessRepeated ==
  /\ C6_FailedFetch
  /\ bpc = "done"
     => \A k \in Failed :
          processed[k].ticker \in DOMAIN results
          => \E j \in Succeeded \ {k} : processed[j].ticker = processed[k].ticker

C6_Witness ==
  /\ bpc = "done"
  /\ has_fallback
  /\ max_retries = DEFAULT_MAX_RETRIES
  /\ Succeeded # {}
  /\ \E k \in Failed :
       /\ processed[k].ticker \notin DOMAIN results
       /\ processed[k].ticker \in DOMAIN failed_tickers

\* C7: within one fetch_with_retry call the fallback is called at most once,
\* only when a fallback is given, only after all self.max_retries primary calls
\* of the loop were made and none returned a quote, and nothing is called after it.
C7_FallbackOnceAfterPrimary ==
  /\ Cardinality(FallbackCalls) <= 1
  /\ \A f \in FallbackCalls :
       /\ has_fallback
       /\ f = Len(calls)
       /\ Cardinality(PrimaryCalls) = max_retries
       /\ \A p \in PrimaryCalls : p < f /\ calls[p].out # "quote"
  /\ (\E p \in PrimaryCalls : calls[p].out = "quote") => FallbackCalls = {}

C7_Witness ==
  /\ pc = "returned"
  /\ max_retries = DEFAULT_MAX_RETRIES
  /\ Cardinality(FallbackCalls) = 1
  /\ Cardinality(PrimaryCalls) = DEFAULT_MAX_RETRIES
  /\ \E p \in PrimaryCalls : calls[p].out = "empty"
  /\ \E p \in PrimaryCalls : calls[p].out = "transient"

\* C8: fetch_batch hands the tickers to fetch_with_retry in input order, one
\* total_attempts each; with continue_on_failure false a fetch that returned the
\* empty result is the last one made, the batch is over, no later ticker is
\* fetched or counted; the batch is never over while a fetch is in progress, and
\* a fetch that returns the empty result has made its whole primary loop and
\* its fallback call.
C8_BatchInOrderStopsAtFailure ==
  InBatch
  => /\ Len(processed) <= Len(tickers)
     /\ \A k \in 1 .. Len(processed) : processed[k].ticker = tickers[k]
     /\ stats.total_attempts = bpre.stats.total_attempts + Len(processed)
     /\ \A k \in 1 .. Len(processed) : ~processed[k].done => k = Len(processed) /\ pc # "idle"
     /\ pc # "idle" => /\ processed # <<>>
                       /\ ticker = tickers[Len(processed)]
                       /\ ~processed[Len(processed)].done
     /\ (pc = "idle" /\ bpc = "running") => Len(processed) = i
     /\ bpc = "done" => pc = "idle"
     /\ (pc = "returned" /\ ret = None)
        => /\ Cardinality(PrimaryCalls) = max_retries
           /\ Cardinality(FallbackCalls) = (IF has_fallback THEN 1 ELSE 0)
     /\ ~continue_on_failure
        => \A k \in Failed : k = Len(processed) /\ bpc = "done"
     /\ (bpc = "done" /\ Len(processed) < Len(tickers))
        => ~continue_on_failure /\ Len(processed) \in Failed

C8_Witness ==
  /\ bpc = "done"
  /\ ~continue_on_failure
  /\ has_fallback
  /\ Len(tickers) = 2
  /\ Len(processed) = 1
  /\ 1 \in Failed
  /\ stats.total_attempts = bpre.stats.total_attempts + 1

\* C9 (as claimed): after fetch_batch on a fresh fetcher, for any list of tickers,
\* the mapping holds only tickers that succeeded and no key is both in the
\* mapping and in get_failures().
C9_NoKeyInResultsAndFailures ==
  (bpc = "done" /\ Fresh)
  => /\ \A t \in DOMAIN results :
          results[t] # None /\ \E k \in Succeeded : processed[k].ticker = t
     /\ DOMAIN results \cap DOMAIN get_failures = {}

\* C9 (amended): after fetch_batch on a fresh fetcher the mapping holds only
\* tickers that succeeded, and a key is both in the mapping and in
\* get_failures() only if it occurs more than once in the list.
C9_KeyInBothOnlyIfRepeated ==
  (bpc = "done" /\ Fresh)
  => /\ \A t \in DOMAIN results :
          results[t] # None /\ \E k \in Succeeded : processed[k].ticker = t
     /\ \A t \in DOMAIN results \cap DOMAIN get_failures : Cardinality(Occurrences(t)) > 1
     /\ \A k \in Failed : processed[k].ticker \in DOMAIN get_failures

C9_Witness ==
  /\ bpc = "done"
  /\ Fresh
  /\ Len(tickers) = 2
  /\ tickers[1] # tickers[2]
  /\ DOMAIN results = {tickers[1]}
  /\ DOMAIN get_failures = {tickers[2]}

\* C10: after reset, and after a second reset, all five counters are zero and
\* the failure map is empty, whatever the state before.
C10_ResetZeroes ==
  resets >= 1
  => /\ get_stats = ZeroStats
     /\ DOMAIN get_failures = {}
     /\ get_failure_count = 0

C10_Witness ==
  /\ resets = 2
  /\ before_reset.stats.total_attempts = 2
  /\ before_reset.stats.retries_used > 0
  /\ before_reset.failed # {}

\* C11: for every attempt index i >= 0 and every base_delay >= 0 the delay of
\* _calculate_backoff is at least backoff_base^i plus base_delay, and for
\* backoff_base > 1 the delay is strictly increasing in i.
C11_BackoffAtLeastPowerAndIncreasing ==
  /\ \A k \in 1 .. Len(bk_delays) :
       bk_delays[k] >= Pow(backoff_base, k - 1) + bk_base_delay
  /\ backoff_base > 1
     => \A k \in 1 .. Len(bk_delays) - 1 : bk_delays[k] < bk_delays[k + 1]

C11_Witness ==
  /\ backoff_base_arg = Given(3)
  /\ bk_base_delay = 2
  /\ Len(bk_delays) = 4
  /\ bk_delays[4] = 29

\* the positions in w_log of the invocations of the wrapped function, of the
\* sleeps, and of the invocations that raised an exception of a class
Invocations == EventsAt(w_log, "invoke")
Sleeps == EventsAt(w_log, "sleep")
Raised(cls) == {k \in Invocations : w_log[k].reply.exc.cls = cls}

\* C12: when create_entity reports that the record exists (ResourceExistsError,
\* 409), nothing follows that invocation, neither a sleep nor another invocation,
\* subscribe_email returns "exists" instead of raising SubscriptionError, and when
\* the first invocation reports it, create_entity was invoked exactly once.
C12_ExistsNotRetried ==
  s_pc # "idle"
  => /\ \A k \in Raised("ResourceExistsError") :
          /\ k = Len(w_log)
          /\ s_pc = "returned"
          /\ s_result = "exists"
     /\ 1 \in Raised("ResourceExistsError") => Invocations = {1} /\ Sleeps = {}

C12_Witness ==
  /\ s_pc = "returned"
  /\ w_max_retries = DECORATED_MAX_RETRIES
  /\ s_email \in s_pre
  /\ w_log = <<Invoked(Reply(Exception("ResourceExistsError", 409), FALSE))>>
  /\ s_result = "exists"

\* C17 (as claimed): subscribe_email returns "exists" only if a record for the
\* normalized email was in the table before the call began, also when a create
\* that the service committed surfaced as a network error and was retried.
C17_ExistsOnlyIfExistedBefore ==
  (s_pc = "returned" /\ s_result = "exists") => s_email \in s_pre

\* C13 (as claimed): a call that starts D < min_interval after the provider's
\* last-call time is suspended for at least min_interval - D before its request
\* is issued, and no two requests to one provider are issued less than
\* min_interval apart.
C13_RequestsMinIntervalApart ==
  /\ (c_pc \in {"waited", "sent"} /\ c_start - c_last < MinInterval(Provider(c_method)))
     => c_slept >= MinInterval(Provider(c_method)) - (c_start - c_last)
  /\ \A j, k \in 1 .. Len(requests) :
       (j < k /\ requests[j].provider = requests[k].provider)
       => requests[k].at - requests[j].at >= MinInterval(requests[k].provider)

\* C14: get_success_rate() is 100 when total_attempts is 0 and otherwise
\* (primary_successes + fallback_successes) / total_attempts x 100, and in every
\* reachable state its value lies between 0 and 100.
C14_SuccessRate ==
  /\ get_success_rate.den > 0
  /\ 0 <= get_success_rate.num
  /\ get_success_rate.num <= 100 * get_success_rate.den
  /\ q_kind = "get_success_rate"
     => IF stats.total_attempts = 0
        THEN q_ret.num = 100 * q_ret.den
        ELSE q_ret.num * stats.total_attempts
               = (stats.primary_successes + stats.fallback_successes) * 100 * q_ret.den

C14_Witness ==
  /\ q_kind = "get_success_rate"
  /\ stats.total_attempts = 2
  /\ stats.fallback_successes = 1
  /\ stats.total_failures = 1
  /\ q_ret = Rational(100, 2)

\* C15: the five queries leave the counters and the failure map as they are, and
\* so does writing to the dictionary get_failures or get_stats returned.
C15_QueriesPure ==
  q_kind # "none" => Tracker = q_before

C15_Witness ==
  /\ q_kind = "get_failures"
  /\ q_mutated
  /\ failed_tickers # EmptyDict
  /\ \E t \in DOMAIN q_ret : t \notin DOMAIN failed_tickers

\* C18 (as claimed): within one fetch no two primary calls follow each other
\* without a sleep between them, whether the earlier one raised or returned an
\* empty result, and in fetch_batch with rate_limit_delay > 0 a sleep of
\* rate_limit_delay precedes the first primary call of every ticker but the first.
C18_SleepBetweenPrimaryCalls ==
  /\ \A j, k \in PrimaryCalls :
       j < k => \E sl \in EventsAt(calls, "sleep") : j < sl /\ sl < k
  /\ (InBatch /\ pc # "idle" /\ Len(processed) > 1 /\ rate_limit_delay > 0)
     => /\ calls # <<>>
        /\ calls[1] = Sleep("batch", rate_limit_delay)

\* the send_email calls that are over, and those of them that raised
SendsDone == {k \in 1 .. Len(m_sends) : m_sends[k].done}
SendsFailed == {k \in SendsDone : ~m_sends[k].ok}
\* the position in the recipient list of the n-th failed send
NthFailed(n) == CHOOSE k \in SendsFailed : Cardinality({j \in SendsFailed : j <= k}) = n

\* C16: send_bulk_email calls send_email once for every recipient, in input
\* order, whatever fails; no exception leaves it; and in the summary
\* sent + failed = total = the number of recipients, failed_emails listing
\* exactly the recipients whose send failed.
C16_BulkAttemptsEveryRecipient ==
  m_pc # "idle"
  => /\ m_pc # "raised"
     /\ Len(m_sends) <= Len(recipients)
     /\ \A k \in 1 .. Len(m_sends) :
          /\ m_sends[k].to_email = recipients[k]
          /\ ~m_sends[k].done => k = Len(m_sends) /\ m_pc = "send"
     /\ m_idx = Cardinality(SendsDone)
     /\ Len(sent) + Len(failed) = m_idx
     /\ m_pc = "done"
        => /\ SendsDone = 1 .. Len(recipients)
           /\ m_result.total = Len(recipients)
           /\ m_result.sent + m_result.failed = m_result.total
           /\ m_result.failed = Cardinality(SendsFailed)
           /\ Len(m_result.failed_emails) = Cardinality(SendsFailed)
           /\ \A n \in 1 .. Len(m_result.failed_emails) :
                m_result.failed_emails[n].email = recipients[NthFailed(n)]

C16_Witness ==
  /\ m_pc = "done"
  /\ w_max_retries = DECORATED_MAX_RETRIES
  /\ m_from_email /\ m_api_key
  /\ Len(recipients) = 2
  /\ recipients[1] # recipients[2]
  /\ SendsFailed = {1}
  /\ m_result.sent = 1
  /\ m_result.failed_emails
       = <<[email |-> recipients[1], error |-> [msg |-> "Unexpected error", status |-> 0]]>>

\* the failures the claims call retryable: a network-level error, or a response
\* with status >= 500 or status 429
NetworkLevel(e) == e.cls \in {"ServiceRequestError", "ConnectionError", "TimeoutError"}
RetryableFailure(e) == NetworkLevel(e) \/ e.status >= 500 \/ e.status = 429
\* a wrapped operation has been entered: by subscribe_email, or by send_email
TableWrapper == s_pc \in {"create", "returned"} /\ w_log # <<>>
MailWrapper == m_pc \in {"send", "loop", "raised"} /\ w_log # <<>>
\* the position in w_log of the n-th sleep
NthSleep(n) == CHOOSE k \in Sleeps : Cardinality({j \in Sleeps : j <= k}) = n
LastInvocation == CHOOSE k \in Invocations : \A j \in Invocations : j <= k

\* C19: both wrappers sleep and invoke the operation again only after a
\* network-level error or a response with status >= 500 or 429; after any other
\* failure nothing follows, the wrapper raises that very error, and when it is
\* the first failure the operation was invoked exactly once and nothing slept.
C19_RetriedOnlyIfRetryable ==
  (TableWrapper \/ MailWrapper)
  => /\ \A k \in Invocations :
          /\ k < Len(w_log)
             => /\ w_log[k + 1].ev = "sleep"
                /\ w_log[k].reply.exc # NoException
                /\ RetryableFailure(w_log[k].reply.exc)
          /\ (w_log[k].reply.exc # NoException /\ ~RetryableFailure(w_log[k].reply.exc))
             => /\ k = Len(w_log)
                /\ w_out = WrapperOut(TRUE, w_log[k].reply.exc)
     /\ (w_log[1].reply.exc # NoException /\ ~RetryableFailure(w_log[1].reply.exc))
        => Invocations = {1} /\ Sleeps = {}

C19_Witness ==
  /\ MailWrapper
  /\ w_max_retries = DECORATED_MAX_RETRIES
  /\ Len(w_log) = 3
  /\ w_log[1].reply.exc = Exception("ApiException", 429)
  /\ w_log[3].reply.exc = Exception("ApiException", 400)
  /\ w_out = WrapperOut(TRUE, Exception("ApiException", 400))

\* C20: with max_retries = m a wrapped operation is invoked at most m + 1 times
\* and at most m sleeps occur, the k-th sleep (k = 0, 1, ...) lasts
\* initial_delay x backoff_factor^k, no sleep follows the final attempt, and
\* when all m + 1 attempts fail the wrapper raises the exception of the last one.
C20_BoundedAttemptsAndDelays ==
  (TableWrapper \/ MailWrapper)
  => /\ Cardinality(Invocations) <= w_max_retries + 1
     /\ Cardinality(Sleeps) <= w_max_retries
     /\ \A n \in 1 .. Cardinality(Sleeps) :
          w_log[NthSleep(n)].d
            = (IF TableWrapper THEN TABLE_INITIAL_DELAY ELSE MAILER_INITIAL_DELAY)
                * Pow(BACKOFF_FACTOR, n - 1)
     /\ \A k \in Sleeps :
          /\ k > 1 /\ w_log[k - 1].ev = "invoke"
          /\ k = Len(w_log) => ~w_out.done /\ w_attempt <= w_max_retries
     /\ w_out.done => w_log[Len(w_log)].ev = "invoke"
     /\ Cardinality(Invocations) = w_max_retries + 1
        => /\ LastInvocation = Len(w_log)
           /\ w_out = WrapperOut(TRUE, w_log[LastInvocation].reply.exc)

C20_Witness ==
  /\ TableWrapper
  /\ w_max_retries = DECORATED_MAX_RETRIES
  /\ Cardinality(Invocations) = 4
  /\ w_log[2].d = 500 /\ w_log[4].d = 1000 /\ w_log[6].d = 2000
  /\ w_out = WrapperOut(TRUE, Exception("HttpResponseError", 500))
  /\ s_result = "SubscriptionError"

(* C25: whenever no fetch_with_retry call is in progress, primary_successes +
   fallback_successes + total_failures equals total_attempts: every call since
   the last reset ended in exactly one of the three. *)
C25_ResolvedEqualsAttemptsWhenIdle ==
  pc = "idle" => Resolved = stats.total_attempts

C25_Witness ==
  /\ Idle
  /\ stats.total_attempts = 2
  /\ stats.primary_successes = 1
  /\ stats.total_failures = 1

\* total_failures minus the number of keys of the failure map
FailureGap == stats.total_failures - get_failure_count

(* C26: get_failure_count() is at most total_failures and has_failures() is
   true exactly when total_failures > 0; the two counts drift apart only when
   a key that is already in the failure map fails again, and are both zero
   after a reset, so they are equal while no key has failed twice. *)
C26_FailureCountAtMostTotalFailures ==
  /\ [](/\ get_failure_count <= stats.total_failures
        /\ has_failures <=> stats.total_failures > 0)
  /\ [][FailureGap' # FailureGap =>
          \/ /\ FailureGap' = FailureGap + 1
             /\ pc = "loop"
             /\ ticker \in DOMAIN failed_tickers
             /\ failed_tickers' = failed_tickers
          \/ /\ stats'.total_failures = 0
             /\ get_failure_count' = 0]_vars

C26_Witness ==
  /\ pc = "returned"
  /\ ticker \in pre.failed
  /\ pre.stats.total_failures = 1
  /\ stats.total_failures = 2
  /\ get_failure_count = 1
  /\ has_failures

(* C28: a fetcher constructed with an explicit max_retries = n uses n as its
   retry bound, n = 0 included; the default applies only when the argument is
   omitted. *)
C28_ExplicitMaxRetriesUsed ==
  /\ max_retries_arg.given => max_retries = max_retries_arg.v
  /\ max_retries = DEFAULT_MAX_RETRIES /\ max_retries_arg # Given(DEFAULT_MAX_RETRIES)
       => ~max_retries_arg.given

\* the primary calls of the current fetch_with_retry call that returned a quote
PrimaryQuotes == {k \in PrimaryCalls : calls[k].out = "quote"}
\* its fetcher calls that returned an empty result
EmptyResults(ev) == {k \in EventsAt(calls, ev) : calls[k].out = "empty"}

(* C30: an empty result is never a success.  An empty primary result is not
   returned and not counted in primary_successes, and it uses up one of the
   primary attempts; an empty fallback result ends in a recorded failure and
   the empty return value, without an increment of fallback_successes. *)
C30_EmptyResultNeverSuccess ==
  pc \in {"loop", "returned"} =>
    /\ Delta("primary_successes") = Cardinality(PrimaryQuotes)
    /\ \A k \in EmptyResults("primary") :
         Cardinality({j \in PrimaryCalls : j <= k}) <= attempt
    /\ Count(calls, "primary") <= PrimaryAttempts
    /\ ret # None => calls[Len(calls)].out = "quote"
    /\ ret = Quote(ticker, "primary") => PrimaryQuotes = {Len(calls)}
    /\ EmptyResults("fallback") # {} =>
         /\ pc = "returned"
         /\ ret = None
         /\ Delta("fallback_successes") = 0
         /\ Delta("total_failures") = 1
         /\ ticker \in DOMAIN failed_tickers

C30_Witness ==
  /\ pc = "returned"
  /\ EmptyResults("primary") # {}
  /\ EmptyResults("fallback") # {}
  /\ ret = None
  /\ stats.total_failures = 1

\* the last-call time the comparator keeps for a provider, and whether it has
\* the provider's API key
LastCallOf(prov) ==
  IF prov = "Alpha Vantage" THEN last_alphavantage_call ELSE last_finnhub_call
KeyOf(prov) == IF prov = "Alpha Vantage" THEN alphavantage_key ELSE finnhub_key
OtherProvider(prov) == IF prov = "Alpha Vantage" THEN "Finnhub" ELSE "Alpha Vantage"

\* one step of a fetch method, as far as the last-call times go
LastCallStep ==
  /\ c_pc = "waited" /\ c_pc' = "sent" =>
       /\ LastCallOf(Provider(c_method))' = now'
       /\ LastCallOf(OtherProvider(Provider(c_method)))'
            = LastCallOf(OtherProvider(Provider(c_method)))
       /\ Len(requests') = Len(requests) + 1
  /\ c_pc # "waited" =>
       /\ last_alphavantage_call' = last_alphavantage_call
       /\ last_finnhub_call' = last_finnhub_call
  /\ c_calls' # c_calls =>
       IF c_pc' = "waited"
       THEN KeyOf(Provider(c_method'))
       ELSE /\ ~alphavantage_key \/ ~finnhub_key
            /\ now' = now
            /\ requests' = requests
            /\ c_pc' = "idle"

(* C22: an Alpha Vantage or Finnhub call that issues a request records the
   current time as that provider's last-call time and keeps it whatever the
   response is; a call skipped for a missing API key neither waits nor changes
   a last-call time; a call never changes the other provider's last-call time. *)
C22_LastCallRecordedPerProvider ==
  /\ [](c_pc = "sent" =>
          /\ Len(requests) > c_retries
          /\ LastCallOf(Provider(c_method)) = requests[Len(requests) - c_retries].at)
  /\ [][LastCallStep]_vars

C22_Witness ==
  /\ c_pc = "idle"
  /\ c_calls = 2
  /\ alphavantage_key
  /\ ~finnhub_key
  /\ Len(requests) = SESSION_RETRY_TOTAL + 1
  /\ last_alphavantage_call = requests[1].at
  /\ last_alphavantage_call > 0
  /\ last_finnhub_call = 0
  /\ now > last_alphavantage_call

(* C21: a not-found response to unsubscribe_email is never retried.  The
   get_entity call that is answered with it is the last table operation of the
   call: no sleep and no update_entity follow, the table is as it was when the
   call began, and SubscriptionError is raised; when the record is missing from
   the start and the first answer says so, get_entity is invoked exactly once. *)
C21_NotFoundNotRetried ==
  u_pc # "idle" =>
    \A k \in Raised("ResourceNotFoundError") :
      /\ u_pc = "returned"
      /\ k = Len(w_log)
      /\ u_calls = [j \in 1 .. Cardinality(Invocations) |-> "get_entity"]
      /\ k = 1 => u_calls = <<"get_entity">>
      /\ table = u_before
      /\ u_email \notin DOMAIN table
      /\ u_result = "SubscriptionError: Email not found"

C21_Witness ==
  /\ u_pc = "returned"
  /\ u_before # EmptyDict
  /\ u_email \notin DOMAIN u_before
  /\ w_log = <<Invoked(Reply(Exception("ResourceNotFoundError", 404), FALSE))>>
  /\ u_calls = <<"get_entity">>
  /\ table = u_before
  /\ u_result = "SubscriptionError: Email not found"

\* the elements of a list
Elements(list) == {list[k] : k \in 1 .. Len(list)}

(* C27: after subscribe_email returned "created" or "exists", the normalized
   address is among the addresses get_active_subscribers lists, whatever
   subscribe_email and unsubscribe_email calls came before. *)
C27_SubscribedIsActive ==
  s_pc = "returned" /\ s_result \in {"created", "exists"} =>
    s_email \in Elements(ActiveEmails(table))

\* the step in which send_weekly_newsletter learns its subscribers: without
\* any it returns at once, after a failure it returns the error dictionary
AfterSubscribersStep ==
  j_pc = "subscribers" /\ j_pc' # "subscribers" =>
    /\ a_result.raised =>
         /\ j_pc' = "returned"
         /\ j_result' = JobResult("error", "subscription_error", 0, 0, 0)
         /\ j_content' = ""
         /\ m_pc' = "idle"
    /\ ~a_result.raised /\ a_result.emails = <<>> =>
         /\ j_pc' = "returned"
         /\ j_result' = JobResult("completed", "", 0, 0, 0)
         /\ j_content' = ""
         /\ m_pc' = "idle"
    /\ m_pc' # "idle" => a_result.emails # <<>> /\ recipients' = a_result.emails

(* C23: send_weekly_newsletter sends only while it holds a non-empty list of
   subscribers and content that was retrieved and validated; without
   subscribers it returns "completed" with total 0 and retrieves no content;
   when the subscribers or the content cannot be retrieved it returns an
   "error" dictionary with sent 0. *)
C23_SendsOnlyWithSubscribersAndContent ==
  /\ [](/\ m_pc # "idle" \/ m_sends # <<>> =>
            /\ j_pc = "sending"
            /\ j_subscribers # <<>>
            /\ recipients = j_subscribers
            /\ j_content = "returned"
        /\ j_pc = "returned" =>
            /\ j_result.status \in {"completed", "error"}
            /\ j_subscribers = <<>> => j_content = "" /\ j_result.total = 0
            /\ j_content \notin {"", "returned"} =>
                 /\ j_result.status = "error"
                 /\ j_result.error_type = ErrorType(j_content)
                 /\ j_result.sent = 0)
  /\ [][AfterSubscribersStep]_vars

C23_Witness ==
  /\ j_pc = "returned"
  /\ Len(j_subscribers) = 2
  /\ j_content = "ValueError"
  /\ j_result = JobResult("error", "invalid_newsletter", 0, 0, 0)
  /\ m_sends = <<>>

(* C29: a dictionary of send_weekly_newsletter with status "completed" and
   total > 0 has sent >= 1. *)
C29_CompletedMeansSent ==
  j_pc = "returned" /\ j_result.status = "completed" /\ j_result.total > 0 =>
    j_result.sent >= 1

\* the strings of HandlerStrings that have the form local@domain.tld
MatchingStrings ==
  {<<"a", "@", "x", ".", "y">>,
   <<"A", "@", "x", ".", "y", "\n">>,
   <<"b", "@", "x", ".", "y", ".", "z">>}

\* the request carries a non-empty email of the right form in a body that parses
Subscribable(req) ==
  /\ req.method = "POST"
  /\ req.body = "object"
  /\ req.email.type = "string"
  /\ req.email.chars \in MatchingStrings

\* every other POST: its body is invalid (not JSON, or JSON that is no
\* object), its email is missing or empty, or its email has another form (a
\* string that does not match, or a value that is no string)
Refused(req) == req.method = "POST" /\ ~Subscribable(req)

\* the steps of the handler: an answer given at once comes without a storage
\* call; the answer after the storage call follows its outcome
HandlerStep ==
  /\ h_pc = "idle" /\ h_pc' = "returned" =>
       /\ UNCHANGED <<subscriber_vars, wrapper_vars>>
       /\ ~Subscribable(h_request')
       /\ h_request'.method = "OPTIONS" => h_response' = HttpResponse(204, "", "")
       /\ Refused(h_request') =>
            h_response'.status_code = 400 /\ h_response'.escaped = ""
  /\ h_pc = "storage" /\ h_pc' = "returned" =>
       /\ s_result \in {"created", "exists"} => h_response'.status_code = 200
       /\ s_result = "SubscriptionError" => h_response'.status_code = 500
       /\ h_response'.escaped = ""
  /\ table' # table => h_pc = "storage"

(* C24 (as claimed): the SubscribeEmail handler calls subscribe_email only for
   a POST whose body parses and carries a non-empty email of the form
   local@domain.tld; it answers OPTIONS with 204, and every other POST (invalid
   body, missing email, email of another form) with 400, each without a storage
   call; it answers "created" and "exists" with 200 and a SubscriptionError
   with 500. *)
C24_StorageOnlyForValidPost ==
  /\ [](/\ s_pc # "idle" \/ w_log # <<>> \/ h_pc = "storage" =>
            /\ h_pc = "storage"
            /\ Subscribable(h_request)
            /\ s_email = normalize_email(h_request.email.chars)
        /\ h_pc = "returned" /\ h_response.status_code \in {200, 500} =>
            Subscribable(h_request))
  /\ [][HandlerStep]_vars

====
